---- MODULE Spec2Model ----
(***************************************************************************)
(* A model of min-xtc1-reader.                                             *)
(* The XTC binary decoder:                                                 *)
(*   - binary_format.py : the little-endian header decoders and the bit    *)
(*                        fields of the header words                       *)
(*   - xtc_reader.py    : XTCReader (event stream), XTCIterator and        *)
(*                        walk_xtc_tree (recursive container walk)         *)
(*   - xtc_reader.py, cli.py : the callers that walk a yielded payload     *)
(* The detector geometry:                                                  *)
(*   - epix_utils.py, coordinate_transform.py : image assembly and pixel   *)
(*                        binning                                          *)
(*   - pixel_coordinates.py : the pixel coordinates of a panel             *)
(*   - coordinate_transform.py : rotation and translation of a panel       *)
(*   - geometry_parser.py, geometry_definitions.py : the geometry file,    *)
(*                        the geometry object and its validation           *)
(*   - epix_utils.py    : the frame shapes the assembly functions accept   *)
(* Bytes are naturals 0..255, byte strings are sequences of bytes.         *)
(* Lengths are whole numbers of a unit in which every pitch is even, and   *)
(* angles are multiples of 90 degrees.                                     *)
(***************************************************************************)
EXTENDS Integers, Sequences, FiniteSets, TLC

VARIABLES
    \* ---- header decoding (parse_xtc_header) ----
    h_words,      \* the five 32-bit words that were packed
    h_data,       \* the byte string handed to parse_xtc_header
    h_pre,        \* how many junk bytes precede the packed header in h_data
    h_offset,     \* the offset handed to parse_xtc_header
    h_result,     \* what the call produced
    h_pc,         \* "call" before the call, "done" after
    \* ---- tree walk (walk_xtc_tree / XTCIterator) ----
    w_shape,      \* the container forest the payload was built from (pre-order)
    w_corrupt,    \* which declared extent was overwritten, and how
    w_payload,    \* the payload bytes handed to walk_xtc_tree
    w_maxlevel,   \* max_level
    w_stack,      \* active walk_xtc_tree calls, innermost last
    w_results,    \* the (level, xtc, data) tuples appended so far
    w_warnings,   \* the bounds warnings printed so far
    w_pc,         \* "run" while walking, "done" when the outermost call returned
    \* ---- event stream (XTCReader) ----
    r_recs,       \* the event records the file was built from
    r_trunc,      \* how many bytes were cut from the end of the file
    r_file,       \* the bytes of the file
    r_fd,         \* "None" or "open"
    r_pos,        \* position of the file handle
    r_file_size,  \* _file_size
    r_bytes_read, \* _bytes_read
    r_events,     \* the (dgram, payload) pairs yielded so far
    r_printed,    \* the error messages printed so far
    r_pc,         \* "new", "iter" (generator live), "ended" or "stopped"
                  \* (the caller left its loop)
    r_outcome,    \* how the loop ended: "", "StopIteration", "raised", "break"
                  \* or "caller_exception"
    r_ctx,        \* "none" (the reader is iterated directly), or where a with
                  \* statement around the loop is: "pending", "entered", "exited"
    r_calls,      \* the explicit open() and close() calls made
    \* ---- bit fields of one 32-bit word (binary_format.py properties) ----
    b_word,       \* the word under inspection
    b_view,       \* the fields read from it, tagged with the type that read them
    b_pc,         \* "new" before a read, "done" after
    \* ---- image assembly (img_from_pixel_arrays) ----
    a_coords,     \* panel_coordinates: panel id -> CoordinateArrays (2D x, y)
    a_frames,     \* frames: panel id -> 2D array of pixel values
    a_pitch,      \* pixel_scale_size_um
    a_rows,       \* row_indices / PixelIndices.rows
    a_cols,       \* col_indices / PixelIndices.cols
    a_image,      \* the assembled image (2D array), <<>> before the call
    a_shape,      \* the shape of the result
    a_op,         \* which function was called
    a_pc,         \* "new" before the call, "done" after
    \* ---- panel pixel coordinates (generate_epix10ka_panel_coordinates) ----
    p_panel,      \* the PanelGeometry handed to the generator
    p_result,     \* the CoordinateArrays produced, or the exception raised
    p_pc,         \* "new" before the call, "done" after, "validated" at last
    p_issues,     \* what validate_panel_coordinates returned
    \* ---- panel transform (transform_panel_coordinates) ----
    t_coords,     \* x_panel, y_panel, z_panel
    t_panel,      \* panel_geometry
    t_do_tilt,    \* do_tilt
    t_result,     \* the CoordinateArrays returned, <<>> before the call
    t_pc,         \* "new" before the call, "done" after
    \* ---- geometry definition parser (parse_geometry_file) ----
    g_file,       \* the file: whether it exists, its path and its lines
    g_result,     \* the DetectorGeometry returned, or the exception raised
    g_pc,         \* "new" before the call, "done" after, "validated" at last
    g_op,         \* "parse" (parse_geometry_file) or "construct" (DetectorGeometry(...))
    g_panels,     \* the panels dictionary handed to the constructor
    g_issues,     \* what validate_geometry returned
    \* ---- frame shape checks of the assembly functions (epix_utils.py) ----
    s_frames,     \* the frames array: its shape and what its buffer holds
    s_call,       \* the function called and its other arguments
    s_result,     \* the image returned, or the exception raised
    s_pc,         \* "new" before the call, "done" after
    \* ---- the in-package callers that walk a yielded payload ----
    c_shape,      \* the containers nested in the event the file holds
    c_caller,     \* get_xtc_info, dump_command or the extract command
    c_payload,    \* the payload the event reader yielded
    c_start,      \* the offset of c_payload at which the caller starts the walk
    c_walked,     \* the bytes the caller handed to walk_xtc_tree
    c_first,      \* the first header the walk decoded, if any
    c_pc,         \* "new", "event" after the yield, "walked"
    \* ---- one XTCIterator object iterated twice ----
    i_payload,    \* XTCIterator.payload
    i_offset,     \* XTCIterator.offset
    i_pass,       \* how many times iter() was called on the object
    i_yielded,    \* the (header, data) pairs of each pass
    i_pc          \* "new", "run" inside a pass, "ended" after it

hvars == <<h_words, h_data, h_pre, h_offset, h_result, h_pc>>
wvars == <<w_shape, w_corrupt, w_payload, w_maxlevel, w_stack, w_results,
           w_warnings, w_pc>>
rvars == <<r_ctx, r_calls,
           r_recs, r_trunc, r_file, r_fd, r_pos, r_file_size, r_bytes_read,
           r_events, r_printed, r_pc, r_outcome>>
bvars == <<b_word, b_view, b_pc>>
avars == <<a_coords, a_frames, a_pitch, a_rows, a_cols, a_image, a_shape,
           a_op, a_pc>>
pvars == <<p_panel, p_result, p_pc, p_issues>>
tvars == <<t_coords, t_panel, t_do_tilt, t_result, t_pc>>
gvars == <<g_file, g_result, g_pc, g_op, g_panels, g_issues>>
svars == <<s_frames, s_call, s_result, s_pc>>
cvars == <<c_shape, c_caller, c_payload, c_start, c_walked, c_first, c_pc>>
ivars == <<i_payload, i_offset, i_pass, i_yielded, i_pc>>
geovars == <<avars, pvars, tvars, gvars, svars>>
xtcvars == <<hvars, wvars, rvars, bvars, cvars, ivars>>
\* what the actions of one geometry component leave unchanged
a_others == <<xtcvars, pvars, tvars, gvars, svars>>
p_others == <<xtcvars, avars, tvars, gvars, svars>>
t_others == <<xtcvars, avars, pvars, gvars, svars>>
g_others == <<xtcvars, avars, pvars, tvars, svars>>
s_others == <<xtcvars, avars, pvars, tvars, gvars>>
vars == <<hvars, wvars, rvars, bvars, cvars, ivars, geovars>>

(***************************************************************************)
(* Bounds of the model.                                                    *)
(***************************************************************************)
MaxPrefix == 2        \* junk bytes before a packed header
MaxSuffix == 2        \* junk bytes after a packed header
MaxNodes == 3         \* containers in a generated payload
MaxLevelArg == 2      \* largest max_level handed to walk_xtc_tree
MaxResults == 5       \* cap on the tuples a never-ending walk may append
MaxEvents == 2        \* event records in a generated file
MaxTrunc == 44        \* bytes cut from the end of a generated file

(***************************************************************************)
(* Program constants.                                                      *)
(***************************************************************************)
Id_Xtc == 1
Id_Frame == 2
XtcHeaderSize == 20

(***************************************************************************)
(* A 32-bit unsigned word (struct format 'I') is kept as its two 16-bit    *)
(* halves, [hi, lo], value hi * 65536 + lo: every bit of the word is kept. *)
(* Python integers do not overflow; every byte string of the model is      *)
(* shorter than 65536 bytes, so a word with hi > 0 exceeds every length    *)
(* and every offset of the model, and a word with hi = 0 has value lo.     *)
(***************************************************************************)
W(h, l) == [hi |-> h, lo |-> l]
Big(w) == w.hi > 0
U32(n) == W(0, n)

Min(a, b) == IF a < b THEN a ELSE b

\* the byte string of n copies of byte b
Fill(n, b) == [i \in 1..n |-> b]

RECURSIVE Concat(_)
\* the concatenation of a sequence of byte strings
Concat(ss) == IF ss = <<>> THEN <<>> ELSE Head(ss) \o Concat(Tail(ss))

(***************************************************************************)
(* Python's data[a:b] for 0 <= a, 0 <= b: clamped to the string.           *)
(***************************************************************************)
PySlice(s, a, b) ==
    IF a >= Min(b, Len(s)) THEN <<>> ELSE SubSeq(s, a + 1, Min(b, Len(s)))

(***************************************************************************)
(* struct.pack('<I', w) and struct.unpack('<I', b): little-endian.         *)
(***************************************************************************)
pack_I(w) ==
    << w.lo % 256, w.lo \div 256, w.hi % 256, w.hi \div 256 >>

pack_words(ws) == Concat([i \in 1..Len(ws) |-> pack_I(ws[i])])

unpack_I_BigEndian(b) == W(b[2] + 256 * b[1], b[4] + 256 * b[3])

unpack_I(b) == W(b[3] + 256 * b[4], b[1] + 256 * b[2])

\* struct.unpack('<nI', data): struct.error unless data has exactly 4n bytes
unpack_words(n, data) ==
    IF Len(data) # 4 * n
    THEN [err |-> "struct.error", words |-> <<>>]
    ELSE [err |-> "", words |-> [i \in 1..n |-> unpack_I(SubSeq(data, 4 * i - 3, 4 * i))]]

(***************************************************************************)
(* The value types of binary_format.py.                                    *)
(***************************************************************************)
Damage(v) == [value |-> v]
Src(l, p) == [log |-> l, phy |-> p]
TypeIdInfo(v) == [value |-> v]
XTCContainer(d, s, c, e) == [damage |-> d, src |-> s, contains |-> c, extent |-> e]

\* TypeIdInfo.type_id: value & 0xFFFF
type_id(c) == c.value.lo

\* (value >> 16) & 0xFFFF: the mask one bit too wide
version_Mask16(c) == c.value.hi

\* TypeIdInfo.version: (value >> 16) & 0x7FFF
version(c) == c.value.hi % 32768

\* TypeIdInfo.compressed: bool(value & 0x80000000)
compressed(c) == (c.value.hi \div 32768) % 2 # 0

\* Damage.flags: value & 0x00FFFFFF
flags(d) == d.value.lo + 65536 * (d.value.hi % 256)

\* Damage.user_bits: (value >> 24) & 0xFF
user_bits(d) == (d.value.hi \div 256) % 256

\* Src.level: (log >> 24) & 0xFF
Src_level(s) == (s.log.hi \div 256) % 256

\* Src.process_id: log & 0xFFFFFF
process_id(s) == s.log.lo + 65536 * (s.log.hi % 256)

NullXtc == XTCContainer(Damage(U32(0)), Src(U32(0), U32(0)), TypeIdInfo(U32(0)), U32(0))

parse_xtc_header_GuardOffByOne(data, offset) ==
    IF Len(data) <= offset + 20
    THEN [err |-> "ValueError", xtc |-> NullXtc]
    ELSE LET u == unpack_words(5, PySlice(data, offset, offset + 20))
         IN  IF u.err # ""
             THEN [err |-> u.err, xtc |-> NullXtc]
             ELSE [err |-> "",
                   xtc |-> XTCContainer(Damage(u.words[1]),
                                        Src(u.words[2], u.words[3]),
                                        TypeIdInfo(u.words[4]), u.words[5])]

parse_xtc_header(data, offset) ==
    IF Len(data) < offset + 20
    THEN [err |-> "ValueError", xtc |-> NullXtc]
    ELSE LET u == unpack_words(5, PySlice(data, offset, offset + 20))
         IN  IF u.err # ""
             THEN [err |-> u.err, xtc |-> NullXtc]
             ELSE [err |-> "",
                   xtc |-> XTCContainer(Damage(u.words[1]),
                                        Src(u.words[2], u.words[3]),
                                        TypeIdInfo(u.words[4]), u.words[5])]

(***************************************************************************)
(* Idle values of the components: a specification that exercises one       *)
(* component leaves the others at these values.                            *)
(***************************************************************************)
HIdle ==
    /\ h_words = <<>> /\ h_data = <<>> /\ h_pre = 0 /\ h_offset = 0
    /\ h_result = [err |-> "", xtc |-> NullXtc] /\ h_pc = "idle"

WIdle ==
    /\ w_shape = <<>> /\ w_corrupt = [idx |-> 0, kind |-> "none"]
    /\ w_payload = <<>> /\ w_maxlevel = 0 /\ w_stack = <<>>
    /\ w_results = <<>> /\ w_warnings = <<>> /\ w_pc = "idle"

RIdle ==
    /\ r_recs = <<>> /\ r_trunc = 0 /\ r_file = <<>> /\ r_fd = "None"
    /\ r_pos = 0 /\ r_file_size = 0 /\ r_bytes_read = 0
    /\ r_events = <<>> /\ r_printed = <<>> /\ r_pc = "idle" /\ r_outcome = ""
    /\ r_ctx = "idle" /\ r_calls = <<>>

BIdle ==
    /\ b_word = U32(0) /\ b_view = [kind |-> "none"] /\ b_pc = "idle"

AIdle ==
    /\ a_coords = <<>> /\ a_frames = <<>> /\ a_pitch = 0 /\ a_rows = <<>>
    /\ a_cols = <<>> /\ a_image = <<>> /\ a_shape = <<0, 0>> /\ a_op = ""
    /\ a_pc = "idle"

PIdle ==
    /\ p_panel = <<>> /\ p_result = <<>> /\ p_pc = "idle" /\ p_issues = <<>>

TIdle ==
    /\ t_coords = <<>> /\ t_panel = <<>> /\ t_do_tilt = FALSE
    /\ t_result = <<>> /\ t_pc = "idle"

GIdle ==
    /\ g_file = <<>> /\ g_result = <<>> /\ g_pc = "idle"
    /\ g_op = "idle" /\ g_panels = <<>> /\ g_issues = <<>>

SIdle ==
    /\ s_frames = <<>> /\ s_call = <<>> /\ s_result = <<>> /\ s_pc = "idle"

CIdle ==
    /\ c_shape = <<>> /\ c_caller = "" /\ c_payload = <<>> /\ c_start = 0
    /\ c_walked = <<>> /\ c_first = <<>> /\ c_pc = "idle"

IIdle ==
    /\ i_payload = <<>> /\ i_offset = 0 /\ i_pass = 0
    /\ i_yielded = <<>> /\ i_pc = "idle"

XtcIdle == HIdle /\ WIdle /\ RIdle /\ BIdle /\ CIdle /\ IIdle
GeoIdle == AIdle /\ PIdle /\ TIdle /\ GIdle /\ SIdle
\* the other components, seen from one geometry component
AOthersIdle == XtcIdle /\ PIdle /\ TIdle /\ GIdle /\ SIdle
POthersIdle == XtcIdle /\ AIdle /\ TIdle /\ GIdle /\ SIdle
TOthersIdle == XtcIdle /\ AIdle /\ PIdle /\ GIdle /\ SIdle
GOthersIdle == XtcIdle /\ AIdle /\ PIdle /\ TIdle /\ SIdle
SOthersIdle == XtcIdle /\ AIdle /\ PIdle /\ TIdle /\ GIdle

(***************************************************************************)
(* Header decoding: a header packed as in tests/test_reader.py             *)
(* (struct.pack('<5I', damage, src_log, src_phy, typeid, extent)), placed  *)
(* after some junk bytes, decoded by parse_xtc_header at any offset.       *)
(***************************************************************************)
DamageSamples == {U32(0), W(4608, 3)}                \* 0, 0x12000003
SrcLogSamples == {W(291, 17767), W(65535, 65535)}    \* 0x01234567, 0xFFFFFFFF
SrcPhySamples == {W(35243, 52719)}                   \* 0x89ABCDEF
TypeTagSamples == {U32(1), W(32768, 4660)}           \* Id_Xtc, 0x80001234
ExtentSamples == {U32(0), U32(64), U32(256), W(32768, 0), W(65535, 65535)}

HeaderWordChoices ==
    {<<d, l, p, t, e>> : d \in DamageSamples, l \in SrcLogSamples,
                         p \in SrcPhySamples, t \in TypeTagSamples,
                         e \in ExtentSamples}

HdrInit ==
    /\ h_words \in HeaderWordChoices
    /\ h_pre \in 0..MaxPrefix
    /\ \E suf \in 0..MaxSuffix :
          h_data = Fill(h_pre, 255) \o pack_words(h_words) \o Fill(suf, 1)
    /\ h_offset \in 0..(XtcHeaderSize + MaxPrefix + MaxSuffix + 1)
    /\ h_result = [err |-> "", xtc |-> NullXtc]
    /\ h_pc = "call"
    /\ WIdle /\ RIdle /\ BIdle /\ CIdle /\ IIdle /\ GeoIdle

CallParse ==
    /\ h_pc = "call"
    /\ h_result' = parse_xtc_header(h_data, h_offset)
    /\ h_pc' = "done"
    /\ UNCHANGED <<h_words, h_data, h_pre, h_offset, wvars, rvars, bvars,
                   cvars, ivars, geovars>>

HdrNext == CallParse

SpecHdr == HdrInit /\ [][HdrNext]_vars

\* the 32-bit little-endian word whose first byte is data[k] (0-based k)
WordAt(data, k) ==
    W(data[k + 3] + data[k + 4] * 256, data[k + 1] + data[k + 2] * 256)

(* C9: parse_xtc_header fails with the truncated-header error exactly when
   fewer than 20 bytes remain in data from offset (offset >= 0), and
   otherwise returns damage, source-log, source-phy, type tag and extent as
   the five little-endian words at data[offset .. offset+19]. *)
C9_ParseHeaderBounds ==
    h_pc = "done" =>
        IF Len(h_data) - h_offset < 20
        THEN h_result.err = "ValueError"
        ELSE /\ h_result.err = ""
             /\ h_result.xtc.damage.value = WordAt(h_data, h_offset)
             /\ h_result.xtc.src.log = WordAt(h_data, h_offset + 4)
             /\ h_result.xtc.src.phy = WordAt(h_data, h_offset + 8)
             /\ h_result.xtc.contains.value = WordAt(h_data, h_offset + 12)
             /\ h_result.xtc.extent = WordAt(h_data, h_offset + 16)

\* a header decoded at a non-zero offset with exactly 20 bytes remaining
C9_Witness ==
    /\ h_pc = "done" /\ h_offset > 0 /\ Len(h_data) = h_offset + 20
    /\ h_result.err = "" /\ h_result.xtc.extent = W(65535, 65535)

(* C10: decoding the 20-byte little-endian encoding of a header h returns
   a header equal to h in every field (damage, source-log, source-phy,
   type tag, extent). *)
C10_HeaderRoundTrip ==
    (h_pc = "done" /\ h_offset = h_pre) =>
        /\ h_result.err = ""
        /\ h_result.xtc = XTCContainer(Damage(h_words[1]),
                                       Src(h_words[2], h_words[3]),
                                       TypeIdInfo(h_words[4]), h_words[5])

\* a header with non-palindromic words and the largest extent was decoded
C10_Witness ==
    /\ h_pc = "done" /\ h_offset = h_pre /\ h_result.err = ""
    /\ h_result.xtc.extent = W(65535, 65535)
    /\ h_result.xtc.contains.value = W(32768, 4660)
    /\ h_result.xtc.damage.value = W(4608, 3)

(***************************************************************************)
(* Payloads for the tree walk.  A payload is built from a forest of        *)
(* containers listed in pre-order, each node [lvl, tid, pad]: its depth,   *)
(* its type id and, for a leaf, the number of data bytes.  A node's header *)
(* is packed as struct.pack('<5I', ...) and its true extent is 20 plus the *)
(* bytes of its data (its descendants, or its pad).  One declared extent   *)
(* may then be overwritten (w_corrupt).                                    *)
(***************************************************************************)
PadChoices == {0, 4}

NodeChoices ==
    {[lvl |-> l, tid |-> t, pad |-> p] :
        l \in 0..(MaxNodes - 1), t \in {Id_Xtc, Id_Frame}, p \in PadChoices}

\* node n may follow the pre-order list sh
Extends(sh, n) ==
    /\ n.tid = Id_Xtc => n.pad = 0
    /\ IF sh = <<>>
       THEN n.lvl = 0
       ELSE /\ n.lvl <= sh[Len(sh)].lvl + 1
            /\ n.lvl = sh[Len(sh)].lvl + 1 => sh[Len(sh)].tid = Id_Xtc

RECURSIVE ShapesOfLen(_)
ShapesOfLen(k) ==
    IF k = 0 THEN {<<>>}
    ELSE UNION {{Append(sh, n) : n \in {m \in NodeChoices : Extends(sh, m)}} :
                   sh \in ShapesOfLen(k - 1)}

Shapes == UNION {ShapesOfLen(k) : k \in 0..MaxNodes}

RECURSIVE SumSizes(_, _, _)
\* bytes of nodes i..j of sh: each a 20-byte header and its pad
SumSizes(sh, i, j) ==
    IF i > j THEN 0 ELSE XtcHeaderSize + sh[i].pad + SumSizes(sh, i + 1, j)

\* the last descendant of node i (i itself when it has none)
DescEnd(sh, i) ==
    LET later == {j \in (i + 1)..Len(sh) : sh[j].lvl <= sh[i].lvl}
    IN  IF later = {} THEN Len(sh)
        ELSE (CHOOSE j \in later : \A k \in later : j <= k) - 1

TrueExtent(sh, i) == SumSizes(sh, i, DescEnd(sh, i))
AbsOffset(sh, i) == SumSizes(sh, 1, i - 1)

\* the parent of node i, 0 for a top-level node
Parent(sh, i) ==
    LET up == {j \in 1..(i - 1) : sh[j].lvl < sh[i].lvl}
    IN  IF up = {} THEN 0 ELSE CHOOSE j \in up : \A k \in up : k <= j

\* absolute end of the buffer that node i lies in
EnclosingEnd(sh, i) ==
    IF Parent(sh, i) = 0 THEN SumSizes(sh, 1, Len(sh))
    ELSE AbsOffset(sh, Parent(sh, i)) + TrueExtent(sh, Parent(sh, i))

CorruptKinds == {"zero", "short", "over", "huge"}

Corruptions(sh) ==
    {[idx |-> 0, kind |-> "none"]} \cup
    {[idx |-> i, kind |-> k] : i \in 1..Len(sh), k \in CorruptKinds}

DeclaredExtent(sh, c, i) ==
    IF c.idx # i THEN U32(TrueExtent(sh, i))
    ELSE CASE c.kind = "zero" -> U32(0)
           [] c.kind = "short" -> U32(XtcHeaderSize - 1)
           [] c.kind = "over" -> U32(EnclosingEnd(sh, i) - AbsOffset(sh, i) + 1)
           [] OTHER -> W(65535, 65535)

\* the header of node i: damage i, source 0x01000000/0x12345678,
\* type tag = type id with version 1
NodeHeader(sh, c, i) ==
    XTCContainer(Damage(U32(i)), Src(W(256, 0), W(4660, 22136)),
                 TypeIdInfo(W(1, sh[i].tid)), DeclaredExtent(sh, c, i))

HeaderBytes(x) ==
    pack_words(<<x.damage.value, x.src.log, x.src.phy, x.contains.value, x.extent>>)

EncodePayload(sh, c) ==
    Concat([i \in 1..Len(sh) |->
               HeaderBytes(NodeHeader(sh, c, i)) \o Fill(sh[i].pad, 200 + i)])

(***************************************************************************)
(* XTCIterator._parse_containers and walk_xtc_tree.                        *)
(* A frame of w_stack is one call of walk_xtc_tree with its XTCIterator:   *)
(* payload and offset are the iterator's fields, level the call's level;   *)
(* base is the absolute position of payload[0] in w_payload (bookkeeping   *)
(* that names a container; the code holds no such field).                  *)
(***************************************************************************)
Frame(data, level, base) ==
    [payload |-> data, offset |-> 0, level |-> level, base |-> base]

EnterWalk_NoLimit(stack, data, level, base) ==
    Append(stack, Frame(data, level, base))

\* walk_xtc_tree(data, level, max_level) is entered: it returns at once when
\* level > max_level, else it builds XTCIterator(data) and starts its loop
EnterWalk(stack, data, level, base) ==
    IF level > w_maxlevel THEN stack ELSE Append(stack, Frame(data, level, base))

\* while self.offset + 20 <= len(self.payload)
HasHeader(f) == f.offset + 20 <= Len(f.payload)

ExceedsPayload_OffByOne(offset, extent, payload) ==
    Big(extent) \/ offset + extent.lo > Len(payload) + 1

\* data_end > len(self.payload), with data_end = self.offset + xtc.extent
ExceedsPayload(offset, extent, payload) ==
    Big(extent) \/ offset + extent.lo > Len(payload)

IsContainerType_WholeTag(xtc) == xtc.contains.value = U32(Id_Xtc)

\* xtc.contains.type_id == TypeId.Id_Xtc
IsContainerType(xtc) == type_id(xtc.contains) = Id_Xtc

Top == w_stack[Len(w_stack)]

\* the stack after the innermost call returned
Return(stack) == SubSeq(stack, 1, Len(stack) - 1)

PcAfter(stack) == IF stack = <<>> THEN "done" ELSE "run"

WalkInit ==
    /\ w_shape \in Shapes
    /\ w_corrupt \in Corruptions(w_shape)
    /\ w_maxlevel \in 0..MaxLevelArg
    /\ w_payload = EncodePayload(w_shape, w_corrupt)
    /\ w_stack = EnterWalk(<<>>, w_payload, 0, 0)
    /\ w_results = <<>>
    /\ w_warnings = <<>>
    /\ w_pc = "run"
    /\ HIdle /\ RIdle /\ BIdle /\ CIdle /\ IIdle /\ GeoIdle

\* one pass of the loop that yields: the tuple is appended, the walk
\* recurses into a generic container, and the iterator moves to data_end
IterYield ==
    /\ w_pc = "run" /\ w_stack # <<>> /\ HasHeader(Top)
    /\ Len(w_results) < MaxResults
    /\ LET f == Top
           p == parse_xtc_header(f.payload, f.offset)
           xtc == p.xtc
           data_start == f.offset + 20
           data_end == f.offset + xtc.extent.lo
           data == PySlice(f.payload, data_start, data_end)
           moved == [w_stack EXCEPT ![Len(w_stack)].offset = data_end]
       IN  /\ p.err = ""
           /\ ~ExceedsPayload(f.offset, xtc.extent, f.payload)
           /\ w_results' = Append(w_results,
                  [level |-> f.level, xtc |-> xtc, data |-> data,
                   abs |-> f.base + f.offset])
           /\ w_stack' = IF IsContainerType(xtc)
                         THEN EnterWalk(moved, data, f.level + 1,
                                        f.base + data_start)
                         ELSE moved
    /\ UNCHANGED <<w_shape, w_corrupt, w_payload, w_maxlevel, w_warnings, w_pc,
                   hvars, rvars, bvars, cvars, ivars, geovars>>

\* one pass of the loop that breaks: the extent runs past the payload
\* (a warning is printed) or the header could not be parsed (the exception
\* is caught and printed); the generator ends and walk_xtc_tree returns
IterBreak ==
    /\ w_pc = "run" /\ w_stack # <<>> /\ HasHeader(Top)
    /\ LET f == Top
           p == parse_xtc_header(f.payload, f.offset)
       IN  /\ p.err # "" \/ ExceedsPayload(f.offset, p.xtc.extent, f.payload)
           /\ w_warnings' = Append(w_warnings,
                  [kind |-> IF p.err # "" THEN "error" ELSE "bounds",
                   extent |-> p.xtc.extent, offset |-> f.offset,
                   level |-> f.level, abs |-> f.base + f.offset])
    /\ w_stack' = Return(w_stack)
    /\ w_pc' = PcAfter(w_stack')
    /\ UNCHANGED <<w_shape, w_corrupt, w_payload, w_maxlevel, w_results,
                   hvars, rvars, bvars, cvars, ivars, geovars>>

\* the loop condition fails: the generator ends and walk_xtc_tree returns
IterExhausted ==
    /\ w_pc = "run" /\ w_stack # <<>> /\ ~HasHeader(Top)
    /\ w_stack' = Return(w_stack)
    /\ w_pc' = PcAfter(w_stack')
    /\ UNCHANGED <<w_shape, w_corrupt, w_payload, w_maxlevel, w_results,
                   w_warnings, hvars, rvars, bvars, cvars, ivars, geovars>>

WalkNext == IterYield \/ IterBreak \/ IterExhausted

SpecWalk == WalkInit /\ [][WalkNext]_vars

(***************************************************************************)
(* What the claims expect of a walk, stated on the forest the payload was  *)
(* built from.                                                             *)
(***************************************************************************)
\* the tuple expected for node i: its depth, its header, and the payload
\* bytes from (offset + 20) up to (offset + extent)
ExpectedTuple(i) ==
    [level |-> w_shape[i].lvl,
     xtc |-> NodeHeader(w_shape, w_corrupt, i),
     data |-> PySlice(w_payload, AbsOffset(w_shape, i) + 20,
                      AbsOffset(w_shape, i) + TrueExtent(w_shape, i)),
     abs |-> AbsOffset(w_shape, i)]

RECURSIVE ExpectedFrom(_, _)
\* the expected tuples of the nodes i..Len(w_shape) that are in Keep, in order
ExpectedFrom(i, Keep) ==
    IF i > Len(w_shape) THEN <<>>
    ELSE (IF i \in Keep THEN <<ExpectedTuple(i)>> ELSE <<>>) \o ExpectedFrom(i + 1, Keep)

WithinLimit(i) == w_shape[i].lvl <= w_maxlevel
AllNodes == 1..Len(w_shape)
NodesWithinLimit == {i \in AllNodes : WithinLimit(i)}

\* node i is the offending node, one of its descendants, or a later sibling
\* of it in the same buffer (with that sibling's descendants)
CutOff(i) ==
    /\ w_corrupt.idx # 0 /\ i >= w_corrupt.idx
    /\ \A k \in (w_corrupt.idx + 1)..i : w_shape[k].lvl >= w_shape[w_corrupt.idx].lvl

NodesKeptAfterViolation == {i \in AllNodes : WithinLimit(i) /\ ~CutOff(i)}

WellFormed == w_corrupt.kind = "none"
Overrun == w_corrupt.kind \in {"over", "huge"} /\ WithinLimit(w_corrupt.idx)

(* C1 as stated: for a payload whose declared extents are all
   self-consistent, the finished walk returns every container exactly once,
   in pre-order with siblings in increasing byte offset, and each data slice
   is the payload bytes from offset+20 up to offset+extent. *)
C1_Original_AllContainers ==
    (w_pc = "done" /\ WellFormed) => w_results = ExpectedFrom(1, AllNodes)

(* C1 amended: for a payload whose declared extents are all self-consistent,
   the finished walk returns exactly the containers of depth <= max_level,
   each once, in pre-order with siblings in increasing byte offset, each
   with the payload bytes from offset+20 up to offset+extent as its data;
   it recurses into a generic container only while depth+1 <= max_level. *)
C1_WalkPreorderWithinLimit ==
    (w_pc = "done" /\ WellFormed) => w_results = ExpectedFrom(1, NodesWithinLimit)

\* a finished walk of a well-formed three-deep nest, all of it returned
C1_Witness ==
    /\ w_pc = "done" /\ WellFormed /\ Len(w_results) = 3
    /\ w_results[2].level = 1 /\ w_results[3].level = 2
    /\ w_results[3].data # <<>>

(* C2: when a container's offset + extent exceeds the buffer being walked,
   the walk returns every container found before it, does not return the
   offending container nor any later container of that level, prints
   exactly one bounds warning, for that container, still returns the later
   siblings of the enclosing levels, and ends normally. *)
C2_BoundsViolationIsLocal ==
    Overrun =>
        /\ Len(w_warnings) <= 1
        /\ \A k \in 1..Len(w_warnings) :
              /\ w_warnings[k].kind = "bounds"
              /\ w_warnings[k].level = w_shape[w_corrupt.idx].lvl
              /\ w_warnings[k].abs = AbsOffset(w_shape, w_corrupt.idx)
              /\ w_warnings[k].extent = DeclaredExtent(w_shape, w_corrupt, w_corrupt.idx)
        /\ w_pc = "done" =>
              /\ Len(w_warnings) = 1
              /\ w_results = ExpectedFrom(1, NodesKeptAfterViolation)

\* a finished walk in which a nested container overran its buffer by one
\* byte and a later sibling of the enclosing container was still returned
C2_Witness ==
    /\ w_pc = "done" /\ w_corrupt.kind = "over" /\ Len(w_warnings) = 1
    /\ w_warnings[1].level = 1
    /\ \E k \in 1..Len(w_results) :
          /\ w_results[k].abs > w_warnings[1].abs
          /\ w_results[k].level = 0

(* C3: the walk offset strictly increases with every container produced
   (so the walk of a finite payload ends), whatever extents the headers
   declare. *)
C3_OffsetStrictlyIncreases ==
    [][Len(w_results') > Len(w_results) =>
          w_stack'[Len(w_stack)].offset > w_stack[Len(w_stack)].offset]_vars

\* the containers that the walk of the payload comes to when every extent
\* before them is obeyed: those within the limit that no violation cuts off
ReachableWithinLimit == NodesKeptAfterViolation

WalkReturned(i) == \E k \in 1..Len(w_results) : w_results[k] = ExpectedTuple(i)

(* C26: whatever the nesting and the extents of the payload, no returned
   tuple has a depth above max_level and no XTCIterator is ever built for
   the data of a generic container that lies at depth max_level (no call of
   walk_xtc_tree with level > max_level decodes anything); and a finished
   walk has returned every container of depth 0..max_level that no extent
   violation cuts off, so every such container of a well-formed payload. *)
C26_DepthLimitBoundsWalk ==
    /\ \A k \in 1..Len(w_results) : w_results[k].level <= w_maxlevel
    /\ \A k \in 1..Len(w_stack) : w_stack[k].level <= w_maxlevel
    /\ w_pc = "done" => \A i \in ReachableWithinLimit : WalkReturned(i)

\* a finished walk with max_level 1 of a well-formed three-deep nest: the
\* two outer containers are returned, the innermost one is not decoded
C26_Witness ==
    /\ w_pc = "done" /\ WellFormed /\ w_maxlevel = 1
    /\ \E i \in AllNodes : w_shape[i].lvl = 2
    /\ Len(w_results) = 2
    /\ w_results[1].level = 0 /\ w_results[2].level = 1
    /\ IsContainerType(w_results[2].xtc) /\ w_results[2].data # <<>>

(***************************************************************************)
(* binary_format.py: the datagram header.                                  *)
(***************************************************************************)
ClockTime(sec, ns) == [seconds |-> sec, nanoseconds |-> ns]
TimeStamp(t, c, f, v) == [ticks |-> t, control |-> c, fiducials |-> f, vector |-> v]
Sequence(c, st) == [clock |-> c, stamp |-> st]
Env(v) == [value |-> v]
Datagram(sq, e, x) == [seq |-> sq, env |-> e, xtc |-> x]

NullDatagram ==
    Datagram(Sequence(ClockTime(U32(0), U32(0)), TimeStamp(0, 0, 0, 0)),
             Env(U32(0)), NullXtc)

\* parse_datagram_header: Sequence(16) + Env(4) + the damage word; the rest
\* of the XTC header is left zero
parse_datagram_header(data) ==
    IF Len(data) < 24
    THEN [err |-> "ValueError", dgram |-> NullDatagram]
    ELSE LET s == unpack_words(4, PySlice(data, 0, 16)).words
             clock_ns == s[1]
             clock_sec == s[2]
             stamp_low == s[3]
             stamp_high == s[4]
             ticks == stamp_low.lo + 65536 * (stamp_low.hi % 256)
             control == stamp_low.hi \div 256
             fiducials == stamp_high.lo + 65536 * (stamp_high.hi % 2)
             vector == stamp_high.hi \div 2
             env_val == unpack_words(1, PySlice(data, 16, 20)).words[1]
             damage_val == unpack_words(1, PySlice(data, 20, 24)).words[1]
         IN  [err |-> "",
              dgram |-> Datagram(
                  Sequence(ClockTime(clock_sec, clock_ns),
                           TimeStamp(ticks, control, fiducials, vector)),
                  Env(env_val),
                  XTCContainer(Damage(damage_val), Src(U32(0), U32(0)),
                               TypeIdInfo(U32(0)), U32(0)))]

\* complete_datagram_with_xtc: src, type tag and extent from the 16 bytes,
\* damage kept from the partial datagram
complete_datagram_with_xtc(partial_dgram, xtc_data) ==
    IF Len(xtc_data) < 16
    THEN [err |-> "ValueError", dgram |-> NullDatagram]
    ELSE LET u == unpack_words(4, PySlice(xtc_data, 0, 16)).words
         IN  [err |-> "",
              dgram |-> Datagram(partial_dgram.seq, partial_dgram.env,
                  XTCContainer(partial_dgram.xtc.damage, Src(u[1], u[2]),
                               TypeIdInfo(u[3]), u[4]))]

payload_size_Header16(xtc) == xtc.extent.lo - 16

\* XTCContainer.payload_size = extent - 20, for an extent below 65536
payload_size(xtc) == xtc.extent.lo - 20

(***************************************************************************)
(* Files for the event reader.  A file is built from event records         *)
(* [paylen, ext]: a 24-byte outer chunk, the 16-byte header remainder and  *)
(* paylen payload bytes; ext says which extent the record declares: the    *)
(* exact one (20 + paylen), one below 20, or a huge one.  The last r_trunc *)
(* bytes of the file are cut off.                                          *)
(***************************************************************************)
ExtentKinds == {"exact", "below", "huge"}

RecordChoices == {[paylen |-> n, ext |-> e] : n \in PadChoices, e \in ExtentKinds}

RecordLists == UNION {[1..k -> RecordChoices] : k \in 0..MaxEvents}

RecordExtent(rec) ==
    CASE rec.ext = "exact" -> U32(XtcHeaderSize + rec.paylen)
      [] rec.ext = "below" -> U32(4)
      [] OTHER -> W(65535, 65535)

RecordDamage(i) == W(4608, i)
RecordTypeId(i) == IF i % 2 = 1 THEN Id_Frame ELSE Id_Xtc

\* the 24-byte chunk, as in tests/test_reader.py: clock 0 ns, 1234567890 s,
\* stamp words 0x123456 and 0x9ABC, env 0x87654321, then the damage word
RecordChunk(i) ==
    pack_words(<<U32(0), W(18838, 722), W(18, 13398), W(0, 39612),
                 W(34661, 17185), RecordDamage(i)>>)

RecordRemainder(recs, i) ==
    pack_words(<<W(256, 0), W(4660, 22136), U32(RecordTypeId(i)),
                 RecordExtent(recs[i])>>)

RecordPayload(recs, i) == [j \in 1..recs[i].paylen |-> 10 * i + j]

RecordBytes(recs, i) ==
    RecordChunk(i) \o RecordRemainder(recs, i) \o RecordPayload(recs, i)

FileBytes(recs, trunc) ==
    LET full == Concat([i \in 1..Len(recs) |-> RecordBytes(recs, i)])
    IN  SubSeq(full, 1, Len(full) - trunc)

RECURSIVE RecordStart(_, _)
\* the file position where record i starts
RecordStart(recs, i) ==
    IF i = 1 THEN 0 ELSE RecordStart(recs, i - 1) + Len(RecordBytes(recs, i - 1))

(***************************************************************************)
(* XTCReader.                                                              *)
(***************************************************************************)
\* self._fd.read(n) at position pos
FileRead(file, pos, n) == PySlice(file, pos, pos + n)

\* full_payload = xtc_header_data + payload_data
full_payload(xtc_header_data, payload_data) == xtc_header_data \o payload_data

\* One pass of the body of the while loop of _read_datagrams, started at
\* file position pos with _bytes_read = nread.  kind is "short_header" (the
\* break at the 24-byte read), "error" (an exception caught by the except
\* clause) or "yield".
ReadOne(file, pos, nread) ==
    LET header_data == FileRead(file, pos, 24)
        pos1 == pos + Len(header_data)
        partial == parse_datagram_header(header_data)
        xtc_header_data == FileRead(file, pos1, 16)
        pos2 == pos1 + Len(xtc_header_data)
        completed == complete_datagram_with_xtc(partial.dgram, xtc_header_data)
        dgram == completed.dgram
        big == Big(dgram.xtc.extent)
        psize == payload_size(dgram.xtc)
        payload_data == IF big THEN FileRead(file, pos2, Len(file))
                        ELSE IF psize > 0 THEN FileRead(file, pos2, psize)
                        ELSE <<>>
        pos3 == pos2 + Len(payload_data)
        none == [dgram |-> NullDatagram, payload |-> <<>>, msg |-> ""]
    IN  IF Len(header_data) < 24
        THEN [kind |-> "short_header", pos |-> pos1, nread |-> nread] @@ none
        ELSE IF partial.err # ""
        THEN [kind |-> "error", pos |-> pos1, nread |-> nread + 24] @@
             [none EXCEPT !.msg = "Datagram header too short"]
        ELSE IF Len(xtc_header_data) < 16
        THEN [kind |-> "error", pos |-> pos2, nread |-> nread + 24] @@
             [none EXCEPT !.msg = "Incomplete XTC header"]
        ELSE IF completed.err # ""
        THEN [kind |-> "error", pos |-> pos2, nread |-> nread + 24 + 16] @@
             [none EXCEPT !.msg = "XTC data too short for remaining header"]
        ELSE IF big \/ (psize > 0 /\ Len(payload_data) < psize)
        THEN [kind |-> "error", pos |-> pos3, nread |-> nread + 24 + 16] @@
             [none EXCEPT !.msg = "Incomplete payload"]
        ELSE [kind |-> "yield", pos |-> pos3,
              nread |-> nread + 24 + 16 + (IF psize > 0 THEN psize ELSE 0),
              dgram |-> dgram,
              payload |-> full_payload(xtc_header_data, payload_data),
              msg |-> ""]

ReaderInit ==
    /\ r_recs \in RecordLists
    /\ r_trunc \in 0..MaxTrunc
    /\ r_trunc <= Len(FileBytes(r_recs, 0))
    /\ r_file = FileBytes(r_recs, r_trunc)
    /\ r_fd = "None"
    /\ r_pos = 0
    /\ r_file_size = Len(r_file)
    /\ r_bytes_read = 0
    /\ r_events = <<>>
    /\ r_printed = <<>>
    /\ r_pc = "new"
    /\ r_outcome = ""
    /\ r_ctx \in {"none", "pending"}
    /\ r_calls = <<>>
    /\ HIdle /\ WIdle /\ BIdle /\ CIdle /\ IIdle /\ GeoIdle

\* __iter__: open() when no handle is held, then the generator is created
Iter ==
    /\ r_pc = "new"
    /\ r_ctx # "pending"
    /\ IF r_fd = "None"
       THEN r_fd' = "open" /\ r_pos' = 0 /\ r_bytes_read' = 0
       ELSE UNCHANGED <<r_fd, r_pos, r_bytes_read>>
    /\ r_pc' = "iter"
    /\ UNCHANGED <<r_recs, r_trunc, r_file, r_file_size, r_events, r_printed,
                   r_outcome, r_ctx, r_calls,
                   hvars, wvars, bvars, cvars, ivars, geovars>>

Looping == r_pc = "iter" /\ r_bytes_read < r_file_size

\* a pass of the loop that yields (dgram, full_payload); start is the file
\* position where the record began (bookkeeping: the code yields no such field)
ReadYield ==
    /\ Looping
    /\ LET o == ReadOne(r_file, r_pos, r_bytes_read)
       IN  /\ o.kind = "yield"
           /\ r_events' = Append(r_events,
                  [dgram |-> o.dgram, payload |-> o.payload, start |-> r_pos])
           /\ r_pos' = o.pos
           /\ r_bytes_read' = o.nread
    /\ UNCHANGED <<r_recs, r_trunc, r_file, r_fd, r_file_size, r_printed, r_pc,
                   r_outcome, r_ctx, r_calls,
                   hvars, wvars, bvars, cvars, ivars, geovars>>

\* fewer than 24 bytes were read: break, the generator returns
ReadShortHeader ==
    /\ Looping
    /\ LET o == ReadOne(r_file, r_pos, r_bytes_read)
       IN  /\ o.kind = "short_header"
           /\ r_pos' = o.pos
           /\ r_bytes_read' = o.nread
    /\ r_pc' = "ended"
    /\ r_outcome' = "StopIteration"
    /\ UNCHANGED <<r_recs, r_trunc, r_file, r_fd, r_file_size, r_events,
                   r_printed, r_ctx, r_calls,
                   hvars, wvars, bvars, cvars, ivars, geovars>>

\* an exception inside the try block: the except clause prints it and
\* breaks, the generator returns
ReadError ==
    /\ Looping
    /\ LET o == ReadOne(r_file, r_pos, r_bytes_read)
       IN  /\ o.kind = "error"
           /\ r_pos' = o.pos
           /\ r_bytes_read' = o.nread
           /\ r_printed' = Append(r_printed, [msg |-> o.msg, at |-> o.nread])
    /\ r_pc' = "ended"
    /\ r_outcome' = "StopIteration"
    /\ UNCHANGED <<r_recs, r_trunc, r_file, r_fd, r_file_size, r_events,
                   r_ctx, r_calls,
                   hvars, wvars, bvars, cvars, ivars, geovars>>

\* the loop condition _bytes_read < _file_size fails: the generator returns
ReadExhausted ==
    /\ r_pc = "iter" /\ ~(r_bytes_read < r_file_size)
    /\ r_pc' = "ended"
    /\ r_outcome' = "StopIteration"
    /\ UNCHANGED <<r_recs, r_trunc, r_file, r_fd, r_pos, r_file_size,
                   r_bytes_read, r_events, r_printed, r_ctx, r_calls,
                   hvars, wvars, bvars, cvars, ivars, geovars>>

\* XTCReader.open: nothing when a handle is held
XTCReader_open(fd, pos, bytes_read) ==
    IF fd # "None" THEN [fd |-> fd, pos |-> pos, bytes_read |-> bytes_read]
    ELSE [fd |-> "open", pos |-> 0, bytes_read |-> 0]

\* XTCReader.close: nothing when no handle is held
XTCReader_close(fd) == IF fd # "None" THEN "None" ELSE fd

r_data == <<r_recs, r_trunc, r_file, r_file_size, r_events, r_printed>>

\* __enter__ of "with XTCReader(filename) as reader": open()
Enter ==
    /\ r_pc = "new" /\ r_ctx = "pending"
    /\ \E o \in {XTCReader_open(r_fd, r_pos, r_bytes_read)} :
          r_fd' = o.fd /\ r_pos' = o.pos /\ r_bytes_read' = o.bytes_read
    /\ r_ctx' = "entered"
    /\ UNCHANGED <<r_data, r_pc, r_outcome, r_calls, hvars, wvars, bvars,
                   cvars, ivars, geovars>>

\* the body of the caller's for loop runs after a yield; it may leave the
\* loop with break (read_xtc_file and get_xtc_info do at max_events)
CallerBreak ==
    /\ r_pc = "iter" /\ r_events # <<>>
    /\ r_pc' = "stopped"
    /\ r_outcome' = "break"
    /\ UNCHANGED <<r_data, r_fd, r_pos, r_bytes_read, r_ctx, r_calls,
                   hvars, wvars, bvars, cvars, ivars, geovars>>

\* or with an exception of its own
CallerRaise ==
    /\ r_pc = "iter" /\ r_events # <<>>
    /\ r_pc' = "stopped"
    /\ r_outcome' = "caller_exception"
    /\ UNCHANGED <<r_data, r_fd, r_pos, r_bytes_read, r_ctx, r_calls,
                   hvars, wvars, bvars, cvars, ivars, geovars>>

\* __exit__, however the loop was left: close()
Exit ==
    /\ r_pc \in {"ended", "stopped"} /\ r_ctx = "entered"
    /\ r_fd' = XTCReader_close(r_fd)
    /\ r_ctx' = "exited"
    /\ UNCHANGED <<r_data, r_pos, r_bytes_read, r_pc, r_outcome, r_calls,
                   hvars, wvars, bvars, cvars, ivars, geovars>>

\* an explicit reader.open(): before the loop, or while a handle is held
Open ==
    /\ r_calls = <<>>
    /\ r_pc \in {"new", "ended", "stopped"}
    /\ r_ctx # "pending"
    /\ r_fd = "open" \/ r_pc = "new"
    /\ \E o \in {XTCReader_open(r_fd, r_pos, r_bytes_read)} :
          r_fd' = o.fd /\ r_pos' = o.pos /\ r_bytes_read' = o.bytes_read
    /\ r_calls' = Append(r_calls, "open")
    /\ UNCHANGED <<r_data, r_pc, r_outcome, r_ctx, hvars, wvars, bvars,
                   cvars, ivars, geovars>>

\* an explicit reader.close(): after the loop of a reader iterated directly,
\* or while no handle is held
Close ==
    /\ r_calls = <<>>
    /\ r_pc \in {"new", "ended", "stopped"}
    /\ r_ctx # "pending"
    /\ r_fd = "None" \/ (r_pc # "new" /\ r_ctx = "none")
    /\ r_fd' = XTCReader_close(r_fd)
    /\ r_calls' = Append(r_calls, "close")
    /\ UNCHANGED <<r_data, r_pos, r_bytes_read, r_pc, r_outcome, r_ctx,
                   hvars, wvars, bvars, cvars, ivars, geovars>>

ReaderNext ==
    \/ Iter \/ ReadYield \/ ReadShortHeader \/ ReadError \/ ReadExhausted
    \/ Enter \/ CallerBreak \/ CallerRaise \/ Exit \/ Open \/ Close

SpecReader == ReaderInit /\ [][ReaderNext]_vars

(***************************************************************************)
(* What the claims expect of the event reader, stated on the records the   *)
(* file was built from.                                                    *)
(***************************************************************************)
AllExact == \A i \in 1..Len(r_recs) : r_recs[i].ext = "exact"
WellFormedFile == AllExact /\ r_trunc = 0

\* the file ends inside the last record, after its complete 24-byte chunk
TruncatedMidRecord ==
    /\ AllExact /\ r_recs # <<>>
    /\ 1 <= r_trunc /\ r_trunc <= 16 + r_recs[Len(r_recs)].paylen

(* C4: for a file that is the concatenation of k well-formed event records,
   the finished iteration has yielded exactly k events, in file order, with
   every byte of the file consumed, and each yielded payload after its
   first 16 bytes equals the record's payload bytes. *)
C4_WellFormedFileYieldsAllEvents ==
    (r_pc = "ended" /\ WellFormedFile) =>
        /\ Len(r_events) = Len(r_recs)
        /\ \A i \in 1..Len(r_events) :
              /\ r_events[i].dgram.xtc.damage.value = RecordDamage(i)
              /\ type_id(r_events[i].dgram.xtc.contains) = RecordTypeId(i)
              /\ r_events[i].dgram.xtc.extent = RecordExtent(r_recs[i])
              /\ r_events[i].start = RecordStart(r_recs, i)
              /\ PySlice(r_events[i].payload, 16, Len(r_events[i].payload))
                     = RecordPayload(r_recs, i)
        /\ r_pos = Len(r_file)
        /\ r_bytes_read = r_file_size
        /\ r_outcome = "StopIteration"
        /\ r_printed = <<>>

\* two well-formed records, the second with payload bytes, both yielded
C4_Witness ==
    /\ r_pc = "ended" /\ WellFormedFile /\ Len(r_events) = 2
    /\ Len(r_events[2].payload) = 20 /\ Len(r_events[1].payload) = 16

(* C5: for every yielded event the outer header has the damage of the last
   4 bytes of the 24-byte chunk and source, type tag and extent of the next
   16 bytes, and the yielded payload is those 16 bytes followed by the
   payload bytes, extent - 4 bytes in all. *)
C5_PayloadIsRemainderPlusData ==
    \A k \in 1..Len(r_events) :
        LET e == r_events[k]
            x == e.dgram.xtc
        IN  /\ x.damage.value = WordAt(r_file, e.start + 20)
            /\ pack_words(<<x.src.log, x.src.phy, x.contains.value, x.extent>>)
                   = PySlice(r_file, e.start + 24, e.start + 40)
            /\ ~Big(x.extent)
            /\ Len(e.payload) = x.extent.lo - 4
            /\ e.payload = PySlice(r_file, e.start + 24, e.start + 20 + x.extent.lo)

(* C6: when the file ends inside a record (the 16-byte header remainder or
   the payload is shorter than declared), the iteration ends with an error
   raised to its caller, not as a normal end. *)
C6_TruncationIsRaised ==
    (r_pc = "ended" /\ TruncatedMidRecord) => r_outcome = "raised"

(* C7: the event sequence ends cleanly only at a record boundary with no
   byte remaining; in particular not when 1 to 23 bytes remain where a
   24-byte chunk should start. *)
C7_CleanEndOnlyAtBoundary ==
    (r_pc = "ended" /\ r_outcome = "StopIteration" /\ r_printed = <<>>) =>
        r_bytes_read = r_file_size

(* C8: every header the event reader accepts has extent >= 20, so that
   payload_size = extent - 20 is never negative; a header declaring less is
   never yielded as an event. *)
C8_YieldedExtentAtLeast20 ==
    \A k \in 1..Len(r_events) :
        LET x == r_events[k].dgram.xtc
        IN  Big(x.extent) \/ (x.extent.lo >= 20 /\ payload_size(x) >= 0)

\* reading is over: the generator ended or the caller left its loop, and a
\* with statement around the loop, if any, was left too
ReadingOver == r_pc \in {"ended", "stopped"} /\ r_ctx \in {"none", "exited"}

(* C24: on every exit path from reading (normal exhaustion, the caller
   stopping early, a decode or truncation error, an exception in the
   caller's loop body) the reader ends up with no open handle: _fd is None;
   open() on an open reader and close() on a closed reader change nothing. *)
C24_HandleReleasedOnEveryExit ==
    /\ [](ReadingOver /\ r_calls = <<>> => r_fd = "None")
    /\ [][(Open /\ r_fd = "open") => UNCHANGED <<r_fd, r_pos, r_bytes_read>>]_vars
    /\ [][(Close /\ r_fd = "None") => UNCHANGED <<r_fd, r_pos, r_bytes_read>>]_vars

\* record i lies whole in the file and declares its own length
CompleteRecord(i) ==
    /\ r_recs[i].ext = "exact"
    /\ RecordStart(r_recs, i) + Len(RecordBytes(r_recs, i)) <= Len(r_file)

\* the records before the first one that is not complete
RECURSIVE CompletePrefix(_)
CompletePrefix(i) ==
    IF i > Len(r_recs) \/ ~CompleteRecord(i) THEN 0 ELSE 1 + CompletePrefix(i + 1)

\* event k is record k: its header, its place in the file and its bytes
EventIsRecord(k) ==
    /\ r_events[k].start = RecordStart(r_recs, k)
    /\ r_events[k].dgram.xtc.damage.value = RecordDamage(k)
    /\ r_events[k].dgram.xtc.extent = RecordExtent(r_recs[k])
    /\ r_events[k].payload =
           RecordRemainder(r_recs, k) \o RecordPayload(r_recs, k)

\* reading a record has failed: an exception was caught and printed
ReadFailed == r_printed # <<>>

(* C27: once reading a record has failed, no further event is yielded from
   the file, and the events yielded before the failure are exactly the
   complete records that precede the failing one (the first record that is
   cut short or declares an extent that is not its length), in file order. *)
C27_ReadFailureIsFatal ==
    /\ [](ReadFailed =>
            /\ r_pc \in {"ended", "stopped"}
            /\ Len(r_events) = CompletePrefix(1)
            /\ \A k \in 1..Len(r_events) : EventIsRecord(k))
    /\ [][ReadFailed => r_events' = r_events]_vars

(***************************************************************************)
(* The callers inside the package that walk the tree of a yielded payload: *)
(* get_xtc_info (xtc_reader.py), dump_command with show_tree and the       *)
(* extract command (cli.py).  The file holds one event of the generic      *)
(* container type whose payload is a well-formed forest.                   *)
(***************************************************************************)
NoCorruption == [idx |-> 0, kind |-> "none"]

NestedBytes(sh) == EncodePayload(sh, NoCorruption)

EventFile(sh) ==
    RecordChunk(1) \o
    pack_words(<<W(256, 0), W(4660, 22136), U32(Id_Xtc),
                 U32(XtcHeaderSize + Len(NestedBytes(sh)))>>) \o
    NestedBytes(sh)

\* walk_xtc_tree(payload, level=0): the first pass of the loop of
\* XTCIterator(payload) decodes the header at offset 0, if 20 bytes are there
first_decoded(payload) ==
    IF HasHeader(Frame(payload, 0, 0))
    THEN <<parse_xtc_header(payload, 0).xtc>>
    ELSE <<>>

Callers == {"get_xtc_info", "dump_command", "extract_command"}

CallInit ==
    /\ c_shape \in Shapes
    /\ c_caller \in Callers
    /\ c_payload = <<>>
    /\ c_start = 0
    /\ c_walked = <<>>
    /\ c_first = <<>>
    /\ c_pc = "new"
    /\ HIdle /\ WIdle /\ RIdle /\ BIdle /\ IIdle /\ GeoIdle

c_others == <<hvars, wvars, rvars, bvars, ivars, geovars>>

\* for i, (dgram, payload) in enumerate(reader): the first event
CallerGetsEvent ==
    /\ c_pc = "new"
    /\ \E o \in {ReadOne(EventFile(c_shape), 0, 0)} :
          /\ o.kind = "yield"
          /\ c_payload' = o.payload
    /\ c_pc' = "event"
    /\ UNCHANGED <<c_shape, c_caller, c_start, c_walked, c_first, c_others>>

\* get_xtc_info: tree = walk_xtc_tree(payload, max_level=3)
GetXtcInfoWalk ==
    /\ c_pc = "event" /\ c_caller = "get_xtc_info"
    /\ c_start' = 0
    /\ c_walked' = c_payload
    /\ c_first' = first_decoded(c_walked')
    /\ c_pc' = "walked"
    /\ UNCHANGED <<c_shape, c_caller, c_payload, c_others>>

\* dump_command: if show_tree and len(payload) > 12:
\*     print_xtc_tree(payload[12:]), which walks the bytes it is given
DumpWalk ==
    /\ c_pc = "event" /\ c_caller = "dump_command"
    /\ Len(c_payload) > 12
    /\ c_start' = 12
    /\ c_walked' = PySlice(c_payload, 12, Len(c_payload))
    /\ c_first' = first_decoded(c_walked')
    /\ c_pc' = "walked"
    /\ UNCHANGED <<c_shape, c_caller, c_payload, c_others>>

\* the extract command: actual_payload = payload[16:] if len(payload) > 16
\* else b''; tree = walk_xtc_tree(actual_payload, max_level=5)
ExtractWalk ==
    /\ c_pc = "event" /\ c_caller = "extract_command"
    /\ c_start' = 16
    /\ c_walked' = IF Len(c_payload) > 16
                   THEN PySlice(c_payload, 16, Len(c_payload)) ELSE <<>>
    /\ c_first' = first_decoded(c_walked')
    /\ c_pc' = "walked"
    /\ UNCHANGED <<c_shape, c_caller, c_payload, c_others>>

CallNext == CallerGetsEvent \/ GetXtcInfoWalk \/ DumpWalk \/ ExtractWalk

SpecCall == CallInit /\ [][CallNext]_vars

(* C28: every caller inside the package that walks the tree of a payload
   yielded by the event reader starts the walk at byte 16 of that payload,
   right after the 16 bytes of the header remainder, so that the first
   header the walk decodes is the header of the first nested container. *)
C28_CallersWalkFromByte16 ==
    c_pc = "walked" =>
        /\ c_start = 16
        /\ c_walked = NestedBytes(c_shape)
        /\ c_shape # <<>> => c_first = <<NodeHeader(c_shape, NoCorruption, 1)>>

(***************************************************************************)
(* One XTCIterator object, iterated to its end more than once.             *)
(***************************************************************************)
MaxPasses == 2        \* times iter() is called on one XTCIterator

\* XTCIterator(payload): start_offset = 0
IterInit ==
    /\ i_payload \in UNION {{EncodePayload(sh, c) : c \in Corruptions(sh)} :
                            sh \in Shapes}
    /\ i_offset = 0
    /\ i_pass = 0
    /\ i_yielded = <<>>
    /\ i_pc = "new"
    /\ HIdle /\ WIdle /\ RIdle /\ BIdle /\ CIdle /\ GeoIdle

i_others == <<hvars, wvars, rvars, bvars, cvars, geovars>>

\* __iter__: a new generator _parse_containers() over the same object
XTCIterator_iter ==
    /\ i_pc \in {"new", "ended"} /\ i_pass < MaxPasses
    /\ i_pass' = i_pass + 1
    /\ i_yielded' = Append(i_yielded, <<>>)
    /\ i_pc' = "run"
    /\ UNCHANGED <<i_payload, i_offset, i_others>>

\* a pass of the while loop that yields (xtc, container_data) and, resumed,
\* sets self.offset = data_end
ParseYield ==
    /\ i_pc = "run" /\ i_offset + 20 <= Len(i_payload)
    /\ Len(i_yielded[i_pass]) < MaxResults
    /\ \E p \in {parse_xtc_header(i_payload, i_offset)} :
          /\ p.err = ""
          /\ ~ExceedsPayload(i_offset, p.xtc.extent, i_payload)
          /\ i_yielded' = [i_yielded EXCEPT ![i_pass] = Append(@,
                 [xtc |-> p.xtc,
                  data |-> PySlice(i_payload, i_offset + 20,
                                   i_offset + p.xtc.extent.lo)])]
          /\ i_offset' = i_offset + p.xtc.extent.lo
    /\ UNCHANGED <<i_payload, i_pass, i_pc, i_others>>

\* a pass that breaks: the extent runs past the payload or the header
\* could not be parsed
ParseBreak ==
    /\ i_pc = "run" /\ i_offset + 20 <= Len(i_payload)
    /\ \E p \in {parse_xtc_header(i_payload, i_offset)} :
          p.err # "" \/ ExceedsPayload(i_offset, p.xtc.extent, i_payload)
    /\ i_pc' = "ended"
    /\ UNCHANGED <<i_payload, i_offset, i_pass, i_yielded, i_others>>

\* the loop condition fails
ParseStop ==
    /\ i_pc = "run" /\ ~(i_offset + 20 <= Len(i_payload))
    /\ i_pc' = "ended"
    /\ UNCHANGED <<i_payload, i_offset, i_pass, i_yielded, i_others>>

IterNext == XTCIterator_iter \/ ParseYield \/ ParseBreak \/ ParseStop

SpecIter == IterInit /\ [][IterNext]_vars

(* C29: the container sequence is restartable: a second iteration of the
   same XTCIterator object over the unchanged payload yields the same
   sequence of (header, data) pairs as the first iteration. *)
C29_SecondIterationYieldsSame ==
    (i_pc = "ended" /\ i_pass >= 2) => i_yielded[2] = i_yielded[1]

(***************************************************************************)
(* Bit fields: one 32-bit word read through the properties of TypeIdInfo,  *)
(* Damage and Src, and as both timestamp words of a datagram header.       *)
(***************************************************************************)
HalfSamples == {0, 1, 255, 256, 32767, 32768, 43690, 65535}
WordSamples == {W(h, l) : h \in HalfSamples, l \in HalfSamples}

BitsInit ==
    /\ b_word \in WordSamples
    /\ b_view = [kind |-> "none"]
    /\ b_pc = "new"
    /\ HIdle /\ WIdle /\ RIdle /\ CIdle /\ IIdle /\ GeoIdle

ReadTypeId ==
    /\ b_pc = "new"
    /\ LET t == TypeIdInfo(b_word)
       IN  b_view' = [kind |-> "TypeIdInfo", type_id |-> type_id(t),
                      version |-> version(t), compressed |-> compressed(t)]
    /\ b_pc' = "done"
    /\ UNCHANGED <<b_word, hvars, wvars, rvars, cvars, ivars, geovars>>

ReadDamage ==
    /\ b_pc = "new"
    /\ LET d == Damage(b_word)
       IN  b_view' = [kind |-> "Damage", flags |-> flags(d),
                      user_bits |-> user_bits(d)]
    /\ b_pc' = "done"
    /\ UNCHANGED <<b_word, hvars, wvars, rvars, cvars, ivars, geovars>>

ReadSrc ==
    /\ b_pc = "new"
    /\ LET s == Src(b_word, U32(0))
       IN  b_view' = [kind |-> "Src", level |-> Src_level(s),
                      process_id |-> process_id(s)]
    /\ b_pc' = "done"
    /\ UNCHANGED <<b_word, hvars, wvars, rvars, cvars, ivars, geovars>>

\* the word as stamp_low and as stamp_high of a 24-byte datagram chunk
ReadStamp ==
    /\ b_pc = "new"
    /\ LET chunk == pack_words(<<U32(0), U32(0), b_word, b_word, U32(0), U32(0)>>)
           st == parse_datagram_header(chunk).dgram.seq.stamp
       IN  b_view' = [kind |-> "TimeStamp", ticks |-> st.ticks,
                      control |-> st.control, fiducials |-> st.fiducials,
                      vector |-> st.vector]
    /\ b_pc' = "done"
    /\ UNCHANGED <<b_word, hvars, wvars, rvars, cvars, ivars, geovars>>

BitsNext == ReadTypeId \/ ReadDamage \/ ReadSrc \/ ReadStamp

SpecBits == BitsInit /\ [][BitsNext]_vars

\* bit i (0 = least significant) of a word, and of a field value
BitOfWord(w, i) ==
    IF i < 16 THEN (w.lo \div (2 ^ i)) % 2 ELSE (w.hi \div (2 ^ (i - 16))) % 2
BitOfField(n, j) == (n \div (2 ^ j)) % 2

\* field n is exactly bits from .. from+width-1 of word w
IsBitRange(n, w, from, width) ==
    /\ n \in 0..(2 ^ width - 1)
    /\ \A j \in 0..(width - 1) : BitOfField(n, j) = BitOfWord(w, from + j)

\* the word whose low `width` bits are lowfield and whose other bits are
\* highfield (16 <= width <= 31)
Reassemble(highfield, lowfield, width) ==
    W(highfield * (2 ^ (width - 16)) + lowfield \div 65536, lowfield % 65536)

(* C11: every bit-sliced field is exactly its stated bit range of the word,
   and the fields of one word put back at their positions give the word:
   type id 0-15, version 16-30, compression flag 31; damage flags 0-23,
   user bits 24-31; source level 24-31, process id 0-23; ticks 0-23,
   control 24-31; fiducials 0-16, vector 17-31. *)
C11_BitFieldsPartitionWord ==
    b_pc = "done" =>
       /\ b_view.kind = "TypeIdInfo" =>
             /\ IsBitRange(b_view.type_id, b_word, 0, 16)
             /\ IsBitRange(b_view.version, b_word, 16, 15)
             /\ b_view.compressed = (BitOfWord(b_word, 31) = 1)
             /\ W((IF b_view.compressed THEN 32768 ELSE 0) + b_view.version,
                  b_view.type_id) = b_word
       /\ b_view.kind = "Damage" =>
             /\ IsBitRange(b_view.flags, b_word, 0, 24)
             /\ IsBitRange(b_view.user_bits, b_word, 24, 8)
             /\ Reassemble(b_view.user_bits, b_view.flags, 24) = b_word
       /\ b_view.kind = "Src" =>
             /\ IsBitRange(b_view.level, b_word, 24, 8)
             /\ IsBitRange(b_view.process_id, b_word, 0, 24)
             /\ Reassemble(b_view.level, b_view.process_id, 24) = b_word
       /\ b_view.kind = "TimeStamp" =>
             /\ IsBitRange(b_view.ticks, b_word, 0, 24)
             /\ IsBitRange(b_view.control, b_word, 24, 8)
             /\ Reassemble(b_view.control, b_view.ticks, 24) = b_word
             /\ IsBitRange(b_view.fiducials, b_word, 0, 17)
             /\ IsBitRange(b_view.vector, b_word, 17, 15)
             /\ Reassemble(b_view.vector, b_view.fiducials, 17) = b_word

\* 0x80001234 read as a type tag (tests/test_reader.py): compressed,
\* version 0, type id 0x1234; and a word with bit 31 set read as a version
C11_Witness ==
    /\ b_pc = "done" /\ b_view.kind = "TypeIdInfo"
    /\ b_word = W(65535, 43690)
    /\ b_view.compressed /\ b_view.version = 32767 /\ b_view.type_id = 43690

(***************************************************************************)
(* Image assembly (epix_utils.img_from_pixel_arrays) and the index         *)
(* conversion of coordinate_transform.coordinates_to_pixel_indices.        *)
(* Lengths are integers in a unit that makes the pitch even, so that       *)
(* pixel_scale_size_um / 2 is the integer a_pitch \div 2.  A 2D array is   *)
(* the sequence of its rows; array indices of the code are 0-based, the    *)
(* sequences 1-based.                                                      *)
(***************************************************************************)
MaxX == 2             \* x coordinates are drawn from 0..MaxX
MaxY == 1             \* y coordinates are drawn from 0..MaxY
NumPanelSlots == 16   \* for panel_id in range(16)

PitchChoices == {2, 4}
\* the panels present and the shape every panel has
Layouts == {<<{}, <<1, 1>>>>, <<{1}, <<1, 1>>>>, <<{1}, <<2, 2>>>>,
            <<{0, 2}, <<1, 2>>>>}
OffsetChoices == {<<0, 0>>, <<1, 0>>, <<0, 2>>}

SeqMin(q) == CHOOSE m \in {q[k] : k \in 1..Len(q)} : \A k \in 1..Len(q) : m <= q[k]
SeqMax(q) == CHOOSE m \in {q[k] : k \in 1..Len(q)} : \A k \in 1..Len(q) : m >= q[k]

SetMin(S) == CHOOSE m \in S : \A v \in S : m <= v
SetMax(S) == CHOOSE m \in S : \A v \in S : m >= v

\* ndarray.flatten(): row-major
flatten(arr) == Concat(arr)

\* np.zeros((h, w))
zeros(h, w) == [r \in 1..h |-> [c \in 1..w |-> 0]]

\* the quotient rounded to the nearest integer instead of cut
astype_uint32_Rounded(num, den) == (2 * num + den) \div (2 * den)

\* np.array(num / den, dtype=np.uint32) for one element: the fraction is cut
astype_uint32(num, den) ==
    IF num >= 0 THEN num \div den ELSE 0 - ((0 - num) \div den)

RECURSIVE collect(_, _)
\* the flattened arrays of the panels present, for panel_id in range(16)
collect(arrs, panel_id) ==
    IF panel_id >= NumPanelSlots THEN <<>>
    ELSE (IF panel_id \in DOMAIN arrs THEN flatten(arrs[panel_id]) ELSE <<>>)
         \o collect(arrs, panel_id + 1)

\* np.array((v_all - v_min_adjusted) / pitch, dtype=np.uint32)
pixel_indices(v_all, v_min_adjusted, pitch) ==
    [k \in 1..Len(v_all) |-> astype_uint32(v_all[k] - v_min_adjusted, pitch)]

\* image_height, image_width = max(row_indices) + 1, max(col_indices) + 1
image_dims(rows, cols) == <<SeqMax(rows) + 1, SeqMax(cols) + 1>>

RECURSIVE assign_FirstWins(_, _, _, _, _)
\* an assignment that keeps the first value written to a bin
assign_FirstWins(image, rows, cols, data, k) ==
    IF k > Len(data) THEN image
    ELSE assign_FirstWins(
             [image EXCEPT ![rows[k] + 1][cols[k] + 1] = IF @ = 0 THEN data[k] ELSE @],
             rows, cols, data, k + 1)

RECURSIVE assign(_, _, _, _, _)
\* image[row_indices, col_indices] = data_all, elements k, k+1, ... in order
assign(image, rows, cols, data, k) ==
    IF k > Len(data) THEN image
    ELSE assign([image EXCEPT ![rows[k] + 1][cols[k] + 1] = data[k]],
                rows, cols, data, k + 1)

CoordinateArrays(x, y, z) == [x_coords |-> x, y_coords |-> y, z_coords |-> z]

\* np.zeros_like(arr)
zeros_like(arr) == [r \in 1..Len(arr) |-> [c \in 1..Len(arr[r]) |-> 0]]
PixelIndices(rows, cols) == [rows |-> rows, cols |-> cols]

\* the shape without the + 1
image_shape_MaxOnly(idx) ==
    <<IF Len(idx.rows) > 0 THEN SeqMax(idx.rows) ELSE 0,
      IF Len(idx.cols) > 0 THEN SeqMax(idx.cols) ELSE 0>>

\* PixelIndices.image_shape
image_shape(idx) ==
    LET max_row == IF Len(idx.rows) > 0 THEN SeqMax(idx.rows) ELSE 0
        max_col == IF Len(idx.cols) > 0 THEN SeqMax(idx.cols) ELSE 0
    IN  <<max_row + 1, max_col + 1>>

\* img_from_pixel_arrays, lines 354-364: the image of the given bin indices
image_of_indices(row_indices, col_indices, data_all) ==
    [rows |-> row_indices, cols |-> col_indices,
     image |-> assign(zeros(image_dims(row_indices, col_indices)[1],
                            image_dims(row_indices, col_indices)[2]),
                      row_indices, col_indices, data_all, 1)]

\* the assembly with the half-pixel offset omitted: bins against the minima
image_of_arrays_NoOffset(x_all, y_all, data_all, pixel_scale_size_um) ==
    IF Len(x_all) = 0
    THEN [rows |-> <<>>, cols |-> <<>>, image |-> zeros(1, 1)]
    ELSE image_of_indices(
             pixel_indices(x_all, SeqMin(x_all), pixel_scale_size_um),
             pixel_indices(y_all, SeqMin(y_all), pixel_scale_size_um),
             data_all)

\* img_from_pixel_arrays, lines 334-352: the bin indices of the combined arrays
image_of_arrays(x_all, y_all, data_all, pixel_scale_size_um) ==
    IF Len(x_all) = 0
    THEN [rows |-> <<>>, cols |-> <<>>, image |-> zeros(1, 1)]
    ELSE image_of_indices(
             pixel_indices(x_all, SeqMin(x_all) - pixel_scale_size_um \div 2,
                           pixel_scale_size_um),
             pixel_indices(y_all, SeqMin(y_all) - pixel_scale_size_um \div 2,
                           pixel_scale_size_um),
             data_all)

\* img_from_pixel_arrays: the index arrays and the image
img_from_pixel_arrays(panel_coordinates, frames, pixel_scale_size_um) ==
    image_of_arrays(
        collect([q \in DOMAIN panel_coordinates |-> panel_coordinates[q].x_coords], 0),
        collect([q \in DOMAIN panel_coordinates |-> panel_coordinates[q].y_coords], 0),
        collect([q \in DOMAIN panel_coordinates |-> frames[q]], 0),
        pixel_scale_size_um)

\* coordinates_to_pixel_indices, lines 189-193: the additional offset
offset_minimum(v_min_adjusted, offset_pix, pixel_scale_size_um) ==
    IF offset_pix > 0 THEN v_min_adjusted - offset_pix * pixel_scale_size_um
    ELSE v_min_adjusted

\* coordinates_to_pixel_indices on flat arrays x, y (np.min of an empty array
\* raises ValueError)
coordinates_to_pixel_indices(x, y, pixel_scale_size_um, xy_offset_pix) ==
    IF Len(x) = 0
    THEN [err |-> "ValueError", idx |-> PixelIndices(<<>>, <<>>)]
    ELSE [err |-> "",
          idx |-> PixelIndices(
              pixel_indices(x, offset_minimum(SeqMin(x) - pixel_scale_size_um \div 2,
                                              xy_offset_pix[1], pixel_scale_size_um),
                            pixel_scale_size_um),
              pixel_indices(y, offset_minimum(SeqMin(y) - pixel_scale_size_um \div 2,
                                              xy_offset_pix[2], pixel_scale_size_um),
                            pixel_scale_size_um))]

RECURSIVE concatenate_values(_, _)
\* np.concatenate of the flattened arrays of panels.values(), every key of
\* the dictionary (taken here in increasing order: only np.min and np.max
\* of the result are used)
concatenate_values(arrs, keys) ==
    IF keys = {} THEN <<>>
    ELSE flatten(arrs[SetMin(keys)]) \o
         concatenate_values(arrs, keys \ {SetMin(keys)})

\* int(np.ceil(range / pixel_scale_size_um)), for range >= 0
ceil_quotient(range, pixel_scale_size_um) ==
    (range + pixel_scale_size_um - 1) \div pixel_scale_size_um

\* calculate_detector_bounds on the combined arrays x_all, y_all
bounds_of_arrays(x_all, y_all, pixel_scale_size_um) ==
    [x_min |-> SeqMin(x_all), x_max |-> SeqMax(x_all),
     y_min |-> SeqMin(y_all), y_max |-> SeqMax(y_all),
     image_shape |->
         <<ceil_quotient(SeqMax(x_all) - SeqMin(x_all), pixel_scale_size_um) + 1,
           ceil_quotient(SeqMax(y_all) - SeqMin(y_all), pixel_scale_size_um) + 1>>]

\* calculate_detector_bounds
calculate_detector_bounds(panels, pixel_scale_size_um) ==
    IF DOMAIN panels = {}
    THEN [x_min |-> 0, x_max |-> 0, y_min |-> 0, y_max |-> 0,
          image_shape |-> <<0, 0>>]
    ELSE bounds_of_arrays(
             concatenate_values([q \in DOMAIN panels |-> panels[q].x_coords],
                                DOMAIN panels),
             concatenate_values([q \in DOMAIN panels |-> panels[q].y_coords],
                                DOMAIN panels),
             pixel_scale_size_um)

\* get_psana_geometry_info: 'assembled_image_shape': bounds['image_shape']
assembled_image_shape(panel_coordinates, pixel_scale_size_um) ==
    calculate_detector_bounds(panel_coordinates, pixel_scale_size_um).image_shape

\* every 2D array of the given shape with elements from S
Arrays(sh, S) == [1..sh[1] -> [1..sh[2] -> S]]

\* frames: every pixel of every panel carries its own nonzero value
FrameValues(sh) ==
    [q \in 0..(NumPanelSlots - 1) |->
        [i \in 1..sh[1] |-> [j \in 1..sh[2] |->
            1 + (j - 1) + sh[2] * (i - 1) + sh[1] * sh[2] * q]]]

AsmInit ==
    /\ \E lay \in Layouts :
          /\ a_coords \in [lay[1] -> {CoordinateArrays(xa, ya, zeros_like(xa)) :
                                         xa \in Arrays(lay[2], 0..MaxX),
                                         ya \in Arrays(lay[2], 0..MaxY)}]
          /\ a_frames = FrameValues(lay[2])
    /\ a_pitch \in PitchChoices
    /\ a_rows = <<>> /\ a_cols = <<>> /\ a_image = <<>> /\ a_shape = <<0, 0>>
    /\ a_op = [fn |-> "", offset |-> <<0, 0>>, err |-> ""]
    /\ a_pc = "new"
    /\ AOthersIdle

Assemble ==
    /\ a_pc = "new"
    /\ \E r \in {img_from_pixel_arrays(a_coords, a_frames, a_pitch)} :
           /\ a_rows' = r.rows /\ a_cols' = r.cols /\ a_image' = r.image
           /\ a_shape' = <<Len(r.image), Len(r.image[1])>>
    /\ a_op' = [fn |-> "img_from_pixel_arrays", offset |-> <<0, 0>>, err |-> ""]
    /\ a_pc' = "done"
    /\ UNCHANGED <<a_coords, a_frames, a_pitch, a_others>>

ToIndices ==
    /\ a_pc = "new"
    /\ \E off \in OffsetChoices :
          \E r \in {coordinates_to_pixel_indices(
                        collect([q \in DOMAIN a_coords |-> a_coords[q].x_coords], 0),
                        collect([q \in DOMAIN a_coords |-> a_coords[q].y_coords], 0),
                        a_pitch, off)} :
              /\ a_rows' = r.idx.rows /\ a_cols' = r.idx.cols
              /\ a_shape' = IF r.err = "" THEN image_shape(r.idx) ELSE <<0, 0>>
              /\ a_op' = [fn |-> "coordinates_to_pixel_indices", offset |-> off,
                          err |-> r.err]
    /\ a_pc' = "done"
    /\ UNCHANGED <<a_coords, a_frames, a_pitch, a_image, a_others>>

\* calculate_detector_bounds / get_psana_geometry_info on the same panels
Bounds ==
    /\ a_pc = "new"
    /\ a_shape' = assembled_image_shape(a_coords, a_pitch)
    /\ a_op' = [fn |-> "calculate_detector_bounds", offset |-> <<0, 0>>,
                err |-> ""]
    /\ a_pc' = "done"
    /\ UNCHANGED <<a_coords, a_frames, a_pitch, a_rows, a_cols, a_image, a_others>>

AsmNext == Assemble \/ ToIndices \/ Bounds

SpecAsm == AsmInit /\ [][AsmNext]_vars

\* the input pixels <<panel id, row, column>> (1-based row and column)
Pixels ==
    UNION {{<<q, i, j>> : i \in DOMAIN a_coords[q].x_coords,
                          j \in DOMAIN a_coords[q].x_coords[1]} :
           q \in DOMAIN a_coords}
PixX(px) == a_coords[px[1]].x_coords[px[2]][px[3]]
PixY(px) == a_coords[px[1]].y_coords[px[2]][px[3]]
PixValue(px) == a_frames[px[1]][px[2]][px[3]]
XMinAll == CHOOSE m \in {PixX(px) : px \in Pixels} : \A px \in Pixels : m <= PixX(px)
YMinAll == CHOOSE m \in {PixY(px) : px \in Pixels} : \A px \in Pixels : m <= PixY(px)

\* iteration order: ascending panel id, row-major within a panel
Before(p1, p2) ==
    \/ p1[1] < p2[1]
    \/ p1[1] = p2[1] /\ p1[2] < p2[2]
    \/ p1[1] = p2[1] /\ p1[2] = p2[2] /\ p1[3] < p2[3]
FlatPos(px) == Cardinality({p1 \in Pixels : Before(p1, px)}) + 1

\* b = floor((v - (vmin - pitch/2)) / pitch), stated without division
IsFloorBin(b, v, vmin) ==
    /\ 2 * b * a_pitch <= 2 * (v - vmin) + a_pitch
    /\ 2 * (v - vmin) + a_pitch < 2 * (b + 1) * a_pitch

Assembled == a_pc = "done" /\ a_op.fn = "img_from_pixel_arrays" /\ Pixels # {}
Indexed ==
    /\ a_pc = "done" /\ a_op.fn = "coordinates_to_pixel_indices"
    /\ a_op.err = "" /\ Pixels # {}

(* C12: in image assembly every pixel is binned as
   row = floor((x - (x_min - pitch/2)) / pitch) and
   col = floor((y - (y_min - pitch/2)) / pitch), x_min and y_min being the
   minima over all panels together; the quotient is cut, not rounded; x gives
   the row and y the column.  The same holds of coordinates_to_pixel_indices
   called without an additional offset. *)
C12_BinningIsFloorOfOffsetQuotient ==
    (Assembled \/ (Indexed /\ a_op.offset = <<0, 0>>)) =>
        /\ Len(a_rows) = Cardinality(Pixels)
        /\ Len(a_cols) = Cardinality(Pixels)
        /\ \A px \in Pixels :
              /\ IsFloorBin(a_rows[FlatPos(px)], PixX(px), XMinAll)
              /\ IsFloorBin(a_cols[FlatPos(px)], PixY(px), YMinAll)

\* two panels of one row; a pixel one and a half pitches above the minimum
\* on x falls into row 1 (rounding would give 2), and y decides the column
C12_Witness ==
    /\ Assembled /\ a_pitch = 2 /\ DOMAIN a_coords = {0, 2}
    /\ \E px \in Pixels :
          /\ PixX(px) - XMinAll = 2 /\ a_rows[FlatPos(px)] = 1
          /\ PixY(px) - YMinAll = 1 /\ a_cols[FlatPos(px)] = 1
          /\ px[1] = 2
    /\ \E px \in Pixels : px[1] = 0 /\ PixX(px) = XMinAll /\ PixY(px) = YMinAll

(* C13: for a nonempty coordinate set the image has exactly
   max(row index) + 1 rows and max(col index) + 1 columns, the maxima taken
   over the bins of all input pixels, so every pixel's bin lies inside the
   image; the same holds of PixelIndices.image_shape. *)
C13_ImageShapeIsMaxIndexPlusOne ==
    (Assembled \/ Indexed) =>
        /\ \E k \in 1..Len(a_rows) : a_rows[k] + 1 = a_shape[1]
        /\ \E k \in 1..Len(a_cols) : a_cols[k] + 1 = a_shape[2]
        /\ \A k \in 1..Len(a_rows) :
              /\ 0 <= a_rows[k] /\ a_rows[k] < a_shape[1]
              /\ 0 <= a_cols[k] /\ a_cols[k] < a_shape[2]
        /\ Assembled =>
              /\ Len(a_image) = a_shape[1]
              /\ \A r \in 1..Len(a_image) : Len(a_image[r]) = a_shape[2]

\* a 2 x 2 panel whose pixels spread over two rows and two columns of bins
C13_Witness ==
    /\ Assembled /\ DOMAIN a_coords = {1} /\ Cardinality(Pixels) = 4
    /\ a_shape = <<2, 2>>
    /\ \E k \in 1..Len(a_rows) : a_rows[k] = 1 /\ a_cols[k] = 0

\* the result of assembling the same input with the offset omitted
NoOffset ==
    image_of_arrays_NoOffset(
        collect([q \in DOMAIN a_coords |-> a_coords[q].x_coords], 0),
        collect([q \in DOMAIN a_coords |-> a_coords[q].y_coords], 0),
        collect([q \in DOMAIN a_coords |-> a_frames[q]], 0), a_pitch)

\* the pixel lies at least half a pitch past a whole number of pitches from
\* the minimum, on x or on y
PastHalfPitch(px) ==
    \/ 2 * ((PixX(px) - XMinAll) % a_pitch) >= a_pitch
    \/ 2 * ((PixY(px) - YMinAll) % a_pitch) >= a_pitch

\* C14 as stated: for any nonempty coordinate set, assembling with the
\* half-pixel offset omitted gives a result different from the assembly's
C14_Original_AlwaysDiffers ==
    Assembled => NoOffset.image # a_image

(* C14, amended: for a nonempty coordinate set, binning against x_min and
   y_min directly gives bin indices different from the assembly's exactly
   when some pixel lies, on x or on y, at least half a pitch past a whole
   number of pitches from the minimum; when no pixel does, both give the
   same bins and the same image. *)
C14_NoOffsetDiffersIffPastHalfPitch ==
    Assembled =>
        /\ (NoOffset.rows # a_rows \/ NoOffset.cols # a_cols)
              <=> (\E px \in Pixels : PastHalfPitch(px))
        /\ (\A px \in Pixels : ~PastHalfPitch(px)) => NoOffset.image = a_image

\* several pixels, one of them half a pitch above the minimum: without the
\* offset the image loses a row
C14_Witness ==
    /\ Assembled /\ Cardinality(Pixels) = 4
    /\ \E px \in Pixels : PastHalfPitch(px)
    /\ Len(NoOffset.image) < Len(a_image)

(* C15: a bin that several pixels fall into holds the value of the pixel
   that comes last in iteration order (ascending panel id, row-major within
   a panel), with no averaging or summing; a bin no pixel falls into
   holds 0. *)
C15_LastWriteWins ==
    Assembled =>
        \A r \in 1..a_shape[1], c \in 1..a_shape[2] :
            LET hits == {px \in Pixels : /\ a_rows[FlatPos(px)] = r - 1
                                         /\ a_cols[FlatPos(px)] = c - 1}
            IN  IF hits = {} THEN a_image[r][c] = 0
                ELSE \E px \in hits :
                        /\ \A p1 \in hits : p1 = px \/ Before(p1, px)
                        /\ a_image[r][c] = PixValue(px)

\* pixels of panel 0 and of panel 2 fall into one bin, which holds the value
\* of the last pixel of panel 2 among them, and another bin stays empty
C15_Witness ==
    /\ Assembled /\ DOMAIN a_coords = {0, 2}
    /\ a_rows[2] = a_rows[3] /\ a_cols[2] = a_cols[3]
    /\ a_rows[4] = a_rows[3] /\ a_cols[4] = a_cols[3]
    /\ a_image[a_rows[3] + 1][a_cols[3] + 1] = PixValue(<<2, 1, 2>>)
    /\ \E r \in 1..a_shape[1], c \in 1..a_shape[2] : a_image[r][c] = 0

\* the shape of the image that img_from_pixel_arrays builds of the same
\* panels and pitch
BuiltShape ==
    <<Len(img_from_pixel_arrays(a_coords, a_frames, a_pitch).image),
      Len(img_from_pixel_arrays(a_coords, a_frames, a_pitch).image[1])>>

(* C30: for the same panel coordinates and the same pixel pitch, the
   image_shape that calculate_detector_bounds reports (the
   assembled_image_shape of get_psana_geometry_info) equals the shape of
   the image that img_from_pixel_arrays builds. *)
C30_ReportedShapeIsBuiltShape ==
    (a_pc = "done" /\ a_op.fn = "calculate_detector_bounds") =>
        a_shape = BuiltShape

(***************************************************************************)
(* Panel pixel coordinates (pixel_coordinates.py).  Lengths are integers   *)
(* in a unit that makes both pitches even, so that pixel_size / 2 and      *)
(* wide_pixel_size / 2 are exact.                                          *)
(***************************************************************************)
EPIX10KA2M_PANEL_SHAPE == <<352, 384>>
EPIX10KA2M_PIXEL_SIZE_UM == 100
EPIX10KA2M_WIDE_PIXEL_SIZE_UM == 250

MaxRows == 5          \* panel shapes have 1..MaxRows rows
MaxCols == 5          \* and 1..MaxCols columns

PixelSizeChoices == {2, 4}
WidePixelSizeChoices == {2, 6, 10}

PanelGeometry(id, sh, pix, wide, pos, rot, tilt) ==
    [panel_id |-> id, shape |-> sh, pixel_size_um |-> pix,
     wide_pixel_size_um |-> wide, position_um |-> pos, rotation_deg |-> rot,
     tilt_deg |-> tilt]

\* q[::-1] and -q
reversed(q) == [k \in 1..Len(q) |-> q[Len(q) + 1 - k]]
negated(q) == [k \in 1..Len(q) |-> 0 - q[k]]

\* the half axis without the wide-pixel centre at index 0
half_axis_NoWideCentre(half, pixel_size, wide_pixel_size) ==
    [k \in 1..half |-> (k - 1) * pixel_size + wide_pixel_size - pixel_size \div 2]

\* x_rhs / y_rhs: np.arange(half) * pixel_size + wide_pixel_size - pixsh,
\* then element 0 set to pixwh (half >= 1)
half_axis(half, pixel_size, wide_pixel_size) ==
    [k \in 1..half |->
        IF k = 1 THEN wide_pixel_size \div 2
        ELSE (k - 1) * pixel_size + wide_pixel_size - pixel_size \div 2]

\* np.meshgrid(x_arr, y_arr): both arrays have shape (len(y_arr), len(x_arr))
meshgrid(x_arr, y_arr) ==
    [x |-> [r \in 1..Len(y_arr) |-> [c \in 1..Len(x_arr) |-> x_arr[c]]],
     y |-> [r \in 1..Len(y_arr) |-> [c \in 1..Len(x_arr) |-> y_arr[r]]]]

\* arrays of the right-hand and lower halves only, without the mirrored ones
generate_epix10ka_xy_arrays_HalfOnly(rows, cols, pixel_size, wide_pixel_size) ==
    IF cols \div 2 = 0 \/ rows \div 2 = 0
    THEN [err |-> "IndexError", x |-> <<>>, y |-> <<>>]
    ELSE [err |-> ""] @@
         meshgrid(half_axis(cols \div 2, pixel_size, wide_pixel_size),
                  negated(half_axis(rows \div 2, pixel_size, wide_pixel_size)))

\* _generate_epix10ka_xy_arrays: x_rhs[0] = pixwh raises IndexError on an
\* empty half axis
generate_epix10ka_xy_arrays(rows, cols, pixel_size, wide_pixel_size) ==
    IF cols \div 2 = 0 \/ rows \div 2 = 0
    THEN [err |-> "IndexError", x |-> <<>>, y |-> <<>>]
    ELSE [err |-> ""] @@
         meshgrid(
             negated(reversed(half_axis(cols \div 2, pixel_size, wide_pixel_size)))
                 \o half_axis(cols \div 2, pixel_size, wide_pixel_size),
             reversed(half_axis(rows \div 2, pixel_size, wide_pixel_size))
                 \o negated(half_axis(rows \div 2, pixel_size, wide_pixel_size)))

\* generate_epix10ka_panel_coordinates
generate_epix10ka_panel_coordinates(panel_geometry) ==
    LET xy == generate_epix10ka_xy_arrays(
                  panel_geometry.shape[1], panel_geometry.shape[2],
                  panel_geometry.pixel_size_um, panel_geometry.wide_pixel_size_um)
    IN  IF xy.err # ""
        THEN [err |-> xy.err] @@ CoordinateArrays(<<>>, <<>>, <<>>)
        ELSE [err |-> ""] @@ CoordinateArrays(xy.x, xy.y, zeros_like(xy.x))

\* arr.shape of a two-dimensional array
array_shape(arr) == <<Len(arr), IF Len(arr) > 0 THEN Len(arr[1]) ELSE 0>>
\* the values of an array
array_values(arr) == UNION {{arr[r][c] : c \in DOMAIN arr[r]} : r \in DOMAIN arr}
\* arr.max() and arr.min()
largest(S) == CHOOSE m \in S : \A v \in S : v <= m
smallest(S) == CHOOSE m \in S : \A v \in S : m <= v
array_max(arr) == largest(array_values(arr))
array_min(arr) == smallest(array_values(arr))

PanelRangeLow == 30000    \* validate_panel_coordinates: 30-50mm
PanelRangeHigh == 50000

\* one of the range checks of validate_panel_coordinates
panel_range_issue(kind, range) ==
    IF range < PanelRangeLow \/ range > PanelRangeHigh THEN <<kind>> ELSE <<>>

\* validate_panel_coordinates: the issues, in the order of the checks (the
\* coordinates of the model are numbers, so np.isfinite holds of all)
validate_panel_coordinates(coords, expected_shape) ==
    (IF array_shape(coords.x_coords) # expected_shape THEN <<"shape">> ELSE <<>>)
    \o panel_range_issue("x_range",
                         array_max(coords.x_coords) - array_min(coords.x_coords))
    \o panel_range_issue("y_range",
                         array_max(coords.y_coords) - array_min(coords.y_coords))

PixInit ==
    /\ \/ \E rows \in 1..MaxRows, cols \in 1..MaxCols,
             pix \in PixelSizeChoices, wide \in WidePixelSizeChoices :
             p_panel = PanelGeometry(0, <<rows, cols>>, pix, wide,
                                     <<0, 0, 0>>, <<0, 0, 0>>, <<0, 0, 0>>)
       \/ p_panel = PanelGeometry(0, EPIX10KA2M_PANEL_SHAPE, EPIX10KA2M_PIXEL_SIZE_UM,
                                  EPIX10KA2M_WIDE_PIXEL_SIZE_UM,
                                  <<0, 0, 0>>, <<0, 0, 0>>, <<0, 0, 0>>)
    /\ p_result = <<>>
    /\ p_issues = <<>>
    /\ p_pc = "new"
    /\ POthersIdle

Generate ==
    /\ p_pc = "new"
    /\ p_result' = generate_epix10ka_panel_coordinates(p_panel)
    /\ p_pc' = "done"
    /\ UNCHANGED <<p_panel, p_issues, p_others>>

\* validate_panel_coordinates(coords, panel.shape) on the arrays generated
ValidatePanel ==
    /\ p_pc = "done"
    /\ p_result.err = ""
    /\ p_issues' = validate_panel_coordinates(p_result, p_panel.shape)
    /\ p_pc' = "validated"
    /\ UNCHANGED <<p_panel, p_result, p_others>>

PixNext == Generate \/ ValidatePanel

SpecPix == PixInit /\ [][PixNext]_vars

\* twice the reference half axis: rhs[0] = w/2, rhs[i] = i*p + w - p/2
TwiceRhs(i) ==
    IF i = 0 THEN p_panel.wide_pixel_size_um
    ELSE 2 * i * p_panel.pixel_size_um + 2 * p_panel.wide_pixel_size_um
         - p_panel.pixel_size_um

\* twice element c (0-based) of [-reverse(rhs), rhs], half = cols/2
TwiceRefX(c) ==
    LET half == p_panel.shape[2] \div 2
    IN  IF c < half THEN 0 - TwiceRhs(half - 1 - c) ELSE TwiceRhs(c - half)

\* twice element r (0-based) of [reverse(rhs), -rhs], half = rows/2
TwiceRefY(r) ==
    LET half == p_panel.shape[1] \div 2
    IN  IF r < half THEN TwiceRhs(half - 1 - r) ELSE 0 - TwiceRhs(r - half)

Generated == p_pc = "done" /\ p_result.err = ""

(* C16: the generated local coordinates follow the reference axes: with
   rhs[0] = w/2 and rhs[i] = i*p + w - p/2, the x of every generated pixel
   in column c is element c of [-reverse(rhs), rhs] (half = cols/2), its y
   in row r is element r of [reverse(rhs), -rhs] (half = rows/2); x depends
   only on the column, y only on the row, and z is 0 everywhere. *)
C16_CoordinatesFollowReferenceAxes ==
    Generated =>
        \A r \in 1..Len(p_result.x_coords) :
            \A c \in 1..Len(p_result.x_coords[r]) :
                /\ 2 * p_result.x_coords[r][c] = TwiceRefX(c - 1)
                /\ 2 * p_result.y_coords[r][c] = TwiceRefY(r - 1)
                /\ p_result.z_coords[r][c] = 0

\* a 4 x 4 panel with pitch 4 and wide pitch 10: the x axis is
\* -12, -5, 5, 12 along the columns and the y axis 12, 5, -5, -12 down the rows
C16_Witness ==
    /\ Generated /\ p_panel.shape = <<4, 4>>
    /\ p_panel.pixel_size_um = 4 /\ p_panel.wide_pixel_size_um = 10
    /\ p_result.x_coords[3] = <<-12, -5, 5, 12>>
    /\ [r \in 1..4 |-> p_result.y_coords[r][2]] = <<12, 5, -5, -12>>

\* the shape of a 2D array that has at least one row
ShapeOf(arr) == <<Len(arr), Len(arr[1])>>

(* C17: for every panel shape (rows, cols) with rows >= 1 and cols >= 1 the
   generated x, y and z arrays each have shape exactly (rows, cols), one
   element per pixel. *)
C17_ShapeIsRowsCols ==
    p_pc = "done" =>
        /\ p_result.err = ""
        /\ ShapeOf(p_result.x_coords) = p_panel.shape
        /\ ShapeOf(p_result.y_coords) = p_panel.shape
        /\ ShapeOf(p_result.z_coords) = p_panel.shape

(***************************************************************************)
(* Panel transform (coordinate_transform.py).  Angles are whole multiples  *)
(* of 90 degrees, for which cosine and sine are the integers -1, 0, 1.     *)
(***************************************************************************)
RotationChoices == {0, 90, 180, 270}
TiltChoices == {0, 90, -90}
PositionChoices == {<<0, 0, 0>>, <<100, -20, 3>>}

\* np.cos(np.radians(angle_deg)) and np.sin(np.radians(angle_deg))
cos_deg(angle_deg) ==
    CASE (angle_deg \div 90) % 4 = 0 -> 1
      [] (angle_deg \div 90) % 4 = 1 -> 0
      [] (angle_deg \div 90) % 4 = 2 -> 0 - 1
      [] (angle_deg \div 90) % 4 = 3 -> 0
sin_deg(angle_deg) ==
    CASE (angle_deg \div 90) % 4 = 0 -> 0
      [] (angle_deg \div 90) % 4 = 1 -> 1
      [] (angle_deg \div 90) % 4 = 2 -> 0
      [] (angle_deg \div 90) % 4 = 3 -> 0 - 1

\* u * cu + v * cv, element by element
combine(u, cu, v, cv) ==
    [r \in 1..Len(u) |-> [c \in 1..Len(u[r]) |-> u[r][c] * cu + v[r][c] * cv]]

\* arr + d, element by element
shifted(arr, d) == [r \in 1..Len(arr) |-> [c \in 1..Len(arr[r]) |-> arr[r][c] + d]]

apply_rotation_z(x, y, angle_deg) ==
    IF angle_deg = 0 THEN <<x, y>>
    ELSE <<combine(x, cos_deg(angle_deg), y, 0 - sin_deg(angle_deg)),
           combine(x, sin_deg(angle_deg), y, cos_deg(angle_deg))>>

apply_rotation_y(x, z, angle_deg) ==
    IF angle_deg = 0 THEN <<x, z>>
    ELSE <<combine(x, cos_deg(angle_deg), z, sin_deg(angle_deg)),
           combine(x, 0 - sin_deg(angle_deg), z, cos_deg(angle_deg))>>

apply_rotation_x(y, z, angle_deg) ==
    IF angle_deg = 0 THEN <<y, z>>
    ELSE <<combine(y, cos_deg(angle_deg), z, 0 - sin_deg(angle_deg)),
           combine(y, sin_deg(angle_deg), z, cos_deg(angle_deg))>>

\* the rotations applied in the order X, Y, Z
apply_3d_rotation_XYZ(x, y, z, rot_z, rot_y, rot_x) ==
    LET yz1 == apply_rotation_x(y, z, rot_x)
        xz2 == apply_rotation_y(x, yz1[2], rot_y)
        xy3 == apply_rotation_z(xz2[1], yz1[1], rot_z)
    IN  <<xy3[1], xy3[2], xz2[2]>>

\* apply_3d_rotation: Z, then Y, then X
apply_3d_rotation(x, y, z, rot_z, rot_y, rot_x) ==
    LET xy1 == apply_rotation_z(x, y, rot_z)
        xz2 == apply_rotation_y(xy1[1], z, rot_y)
        yz3 == apply_rotation_x(xy1[2], xz2[2], rot_x)
    IN  <<xz2[1], yz3[1], yz3[2]>>

apply_translation(x, y, z, dx, dy, dz) ==
    <<shifted(x, dx), shifted(y, dy), shifted(z, dz)>>

transform_panel_coordinates(x_panel, y_panel, z_panel, panel_geometry, do_tilt) ==
    LET pos == panel_geometry.position_um
        rot == panel_geometry.rotation_deg
        tilt == panel_geometry.tilt_deg
        rot_z_total == rot[1] + (IF do_tilt THEN tilt[1] ELSE 0)
        rot_y_total == rot[2] + (IF do_tilt THEN tilt[2] ELSE 0)
        rot_x_total == rot[3] + (IF do_tilt THEN tilt[3] ELSE 0)
        rotated == apply_3d_rotation(x_panel, y_panel, z_panel,
                                     rot_z_total, rot_y_total, rot_x_total)
        final == apply_translation(rotated[1], rotated[2], rotated[3],
                                   pos[1], pos[2], pos[3])
    IN  CoordinateArrays(final[1], final[2], final[3])

\* panel-frame arrays: the generated coordinates of a 2 x 2 panel, and a
\* row of two pixels off the panel plane
PanelFrameSamples ==
    {CoordinateArrays(<<<<-5, 5>>, <<-5, 5>>>>, <<<<5, 5>>, <<-5, -5>>>>,
                      <<<<0, 0>>, <<0, 0>>>>),
     CoordinateArrays(<<<<1, -2>>>>, <<<<3, 5>>>>, <<<<7, 0>>>>)}

XformInit ==
    /\ t_coords \in PanelFrameSamples
    /\ \E pos \in PositionChoices,
          rot \in RotationChoices \X RotationChoices \X RotationChoices,
          tilt \in TiltChoices \X TiltChoices \X TiltChoices :
          t_panel = PanelGeometry(0, <<Len(t_coords.x_coords),
                                       Len(t_coords.x_coords[1])>>,
                                  4, 10, pos, rot, tilt)
    /\ t_do_tilt \in BOOLEAN
    /\ t_result = <<>>
    /\ t_pc = "new"
    /\ TOthersIdle

Transform ==
    /\ t_pc = "new"
    /\ t_result' = transform_panel_coordinates(t_coords.x_coords, t_coords.y_coords,
                                               t_coords.z_coords, t_panel, t_do_tilt)
    /\ t_pc' = "done"
    /\ UNCHANGED <<t_coords, t_panel, t_do_tilt, t_others>>

XformNext == Transform

SpecXform == XformInit /\ [][XformNext]_vars

RECURSIVE QuarterTurns(_, _, _)
\* the point v turned k times by a quarter turn (90 degrees, counter-
\* clockwise seen from the positive end of the axis) about the axis
QuarterTurns(v, axis, k) ==
    IF k = 0 THEN v
    ELSE QuarterTurns(
             CASE axis = "z" -> <<0 - v[2], v[1], v[3]>>
               [] axis = "y" -> <<v[3], v[2], 0 - v[1]>>
               [] axis = "x" -> <<v[1], 0 - v[3], v[2]>>,
             axis, k - 1)

\* the number of quarter turns in an angle
Quarters(angle_deg) == (angle_deg \div 90) % 4

\* the total angles C18 names
TotalAngle(i) ==
    t_panel.rotation_deg[i] + (IF t_do_tilt THEN t_panel.tilt_deg[i] ELSE 0)

(* C18: every pixel is rotated about Z, then about Y, then about X, each a
   standard rotation in its plane by the total angle of that axis, and only
   then moved by the panel position; the total angle is design rotation +
   tilt when do_tilt is true and the design rotation alone when it is false
   (the tilt values then have no effect). *)
C18_RotateZYXThenTranslate ==
    t_pc = "done" =>
        \A r \in 1..Len(t_coords.x_coords) :
            \A c \in 1..Len(t_coords.x_coords[r]) :
                LET v0 == <<t_coords.x_coords[r][c], t_coords.y_coords[r][c],
                            t_coords.z_coords[r][c]>>
                    v1 == QuarterTurns(v0, "z", Quarters(TotalAngle(1)))
                    v2 == QuarterTurns(v1, "y", Quarters(TotalAngle(2)))
                    v3 == QuarterTurns(v2, "x", Quarters(TotalAngle(3)))
                IN  /\ t_result.x_coords[r][c] = v3[1] + t_panel.position_um[1]
                    /\ t_result.y_coords[r][c] = v3[2] + t_panel.position_um[2]
                    /\ t_result.z_coords[r][c] = v3[3] + t_panel.position_um[3]

\* a pixel (1, 3, 7) turned by 90 degrees about Z and then about X, with a
\* tilt that is present but switched off, then moved to the panel position
C18_Witness ==
    /\ t_pc = "done" /\ ~t_do_tilt
    /\ t_panel.rotation_deg = <<90, 0, 90>> /\ t_panel.tilt_deg = <<90, -90, 0>>
    /\ t_panel.position_um = <<100, -20, 3>>
    /\ t_coords.z_coords = <<<<7, 0>>>>
    /\ t_result.x_coords[1][1] = 97
    /\ t_result.y_coords[1][1] = -27
    /\ t_result.z_coords[1][1] = 4

(***************************************************************************)
(* The geometry definition parser (geometry_parser.py).  A line is kept as *)
(* what str.strip, str.startswith and str.split make of it: its kind and   *)
(* its whitespace-separated fields.  A field is a token: the text of an    *)
(* integer ("12"), of a decimal number ("12.0") or any other text.         *)
(***************************************************************************)
MaxLines == 2         \* lines in a geometry file
MaxKey == 2           \* dictionaries built by hand have keys drawn from -1..MaxKey
MaxPanelId == 15      \* PanelGeometry.__post_init__: 0 <= panel_id <= 15
NumLineFields == 13   \* fields of a geometry line

IntTok(n) == [lex |-> "int", val |-> n]
DecTok(n) == [lex |-> "dec", val |-> n]
StrTok(t) == [lex |-> "str", val |-> t]

\* int(text): only the text of an integer converts
py_int(tok) ==
    IF tok.lex = "int" THEN [err |-> "", val |-> tok.val]
    ELSE [err |-> "ValueError", val |-> 0]

\* float(text): the text of an integer or of a decimal number converts
py_float(tok) ==
    IF tok.lex \in {"int", "dec"} THEN [err |-> "", val |-> tok.val]
    ELSE [err |-> "ValueError", val |-> 0]

GeometryObject(par, pidx, name, idx, nums) ==
    [parent |-> par, parent_index |-> pidx, object_name |-> name,
     object_index |-> idx, x0 |-> nums[1], y0 |-> nums[2], z0 |-> nums[3],
     rot_z |-> nums[4], rot_y |-> nums[5], rot_x |-> nums[6],
     tilt_z |-> nums[7], tilt_y |-> nums[8], tilt_x |-> nums[9]]

NoObject == [parent |-> "None"]

\* the conversions of fields 5..13, in order; the first failure raises
float_fields(fields) ==
    IF \E k \in 5..13 : py_float(fields[k]).err # ""
    THEN [err |-> "ValueError", vals |-> <<>>]
    ELSE [err |-> "", vals |-> [k \in 1..9 |-> py_float(fields[k + 4]).val]]

\* _parse_geometry_line on a stripped, non-empty line
parse_geometry_line(line) ==
    IF line.kind \in {"comment", "HDR"}
    THEN [err |-> "", obj |-> NoObject]
    ELSE IF Len(line.fields) < NumLineFields
    THEN [err |-> "ValueError", obj |-> NoObject]
    ELSE IF \/ py_int(line.fields[2]).err # ""
            \/ py_int(line.fields[4]).err # ""
            \/ float_fields(line.fields).err # ""
    THEN [err |-> "ValueError", obj |-> NoObject]
    ELSE [err |-> "",
          obj |-> GeometryObject(line.fields[1].val, py_int(line.fields[2]).val,
                                 line.fields[3].val, py_int(line.fields[4]).val,
                                 float_fields(line.fields).vals)]

\* _parse_comment_line: "# KEY: value" is stored under KEY, any other
\* comment under comment_<number of comments so far>; a key is kept as a
\* pair, <<KEY, -1>> or <<"comment_", n>>
comment_key(line, comments) ==
    IF line.form = "keyed" THEN <<line.key, 0 - 1>>
    ELSE <<"comment_", Cardinality(DOMAIN comments)>>

parse_comment_line(line, comments) ==
    [k \in DOMAIN comments \cup {comment_key(line, comments)} |->
        IF k = comment_key(line, comments) THEN line.value ELSE comments[k]]

\* PanelGeometry.__post_init__ (the shape always has two elements)
PanelGeometry_post_init(panel) ==
    IF panel.panel_id < 0 \/ panel.panel_id > MaxPanelId THEN "ValueError" ELSE ""

RECURSIVE convert_to_panel_geometries(_, _, _)
\* _convert_to_panel_geometries: geometry_objects[k..] added to panels
convert_to_panel_geometries(geometry_objects, k, panels) ==
    IF k > Len(geometry_objects) THEN [err |-> "", panels |-> panels]
    ELSE IF geometry_objects[k].object_name # "EPIX10KA:V1"
    THEN convert_to_panel_geometries(geometry_objects, k + 1, panels)
    ELSE IF PanelGeometry_post_init([panel_id |-> geometry_objects[k].object_index]) # ""
    THEN [err |-> "ValueError", panels |-> <<>>]
    ELSE convert_to_panel_geometries(
             geometry_objects, k + 1,
             [q \in DOMAIN panels \cup {geometry_objects[k].object_index} |->
                 IF q = geometry_objects[k].object_index
                 THEN PanelGeometry(
                          geometry_objects[k].object_index, EPIX10KA2M_PANEL_SHAPE,
                          EPIX10KA2M_PIXEL_SIZE_UM, EPIX10KA2M_WIDE_PIXEL_SIZE_UM,
                          <<geometry_objects[k].x0, geometry_objects[k].y0,
                            geometry_objects[k].z0>>,
                          <<geometry_objects[k].rot_z, geometry_objects[k].rot_y,
                            geometry_objects[k].rot_x>>,
                          <<geometry_objects[k].tilt_z, geometry_objects[k].tilt_y,
                            geometry_objects[k].tilt_x>>)
                 ELSE panels[q]])

DetectorGeometry(name, panels, comments) ==
    [detector_name |-> name, panels |-> panels, comments |-> comments,
     pixel_scale_size_um |-> 100]

\* a constructor that accepts every dictionary with at least one panel
DetectorGeometry_post_init_NonEmptyOnly(geometry) ==
    IF DOMAIN geometry.panels = {} THEN "ValueError" ELSE ""

\* DetectorGeometry.__post_init__: at least one panel, ids 0..N-1
DetectorGeometry_post_init(geometry) ==
    IF DOMAIN geometry.panels = {} THEN "ValueError"
    ELSE IF DOMAIN geometry.panels # 0..(Cardinality(DOMAIN geometry.panels) - 1)
    THEN "ValueError"
    ELSE ""

\* _extract_detector_name: geometry-def-<detector>.data gives <detector>
extract_detector_name(file_path) ==
    IF file_path = "geometry-def-epix10ka2m.data" THEN "epix10ka2m" ELSE file_path

NoGeometry == [detector_name |-> "None"]
NoError == [type |-> ""]

RECURSIVE parse_lines(_, _, _, _)
\* the loop of _parse_geometry_stream from line line_num on: the objects and
\* comments collected, or the GeometryParseError of the first line that fails
parse_lines(lines, line_num, geometry_objects, comments) ==
    IF line_num > Len(lines)
    THEN [err |-> NoError, objects |-> geometry_objects, comments |-> comments]
    ELSE IF lines[line_num].kind = "blank"
    THEN parse_lines(lines, line_num + 1, geometry_objects, comments)
    ELSE IF lines[line_num].kind = "comment"
    THEN parse_lines(lines, line_num + 1, geometry_objects,
                     parse_comment_line(lines[line_num], comments))
    ELSE IF parse_geometry_line(lines[line_num]).err # ""
    THEN [err |-> [type |-> "GeometryParseError", line_num |-> line_num,
                   line |-> lines[line_num],
                   cause |-> parse_geometry_line(lines[line_num]).err],
          objects |-> <<>>, comments |-> <<>>]
    ELSE IF parse_geometry_line(lines[line_num]).obj = NoObject
    THEN parse_lines(lines, line_num + 1, geometry_objects, comments)
    ELSE parse_lines(lines, line_num + 1,
                     Append(geometry_objects, parse_geometry_line(lines[line_num]).obj),
                     comments)

\* _parse_geometry_stream, lines 73-80: panels and DetectorGeometry of the
\* collected objects; a ValueError of either constructor propagates
geometry_of_objects(parsed, file_path) ==
    IF parsed.err # NoError THEN [err |-> parsed.err, geometry |-> NoGeometry]
    ELSE IF convert_to_panel_geometries(parsed.objects, 1, <<>>).err # ""
    THEN [err |-> [type |-> "ValueError"], geometry |-> NoGeometry]
    ELSE IF DetectorGeometry_post_init(
                [panels |-> convert_to_panel_geometries(parsed.objects, 1, <<>>).panels]) # ""
    THEN [err |-> [type |-> "ValueError"], geometry |-> NoGeometry]
    ELSE [err |-> NoError,
          geometry |-> DetectorGeometry(
              extract_detector_name(file_path),
              convert_to_panel_geometries(parsed.objects, 1, <<>>).panels,
              parsed.comments)]

parse_geometry_stream(lines, file_path) ==
    geometry_of_objects(parse_lines(lines, 1, <<>>, <<>>), file_path)

\* parse_geometry_file: every exception of the parse is raised again as a
\* GeometryParseError whose message holds the message of the first
wrap_error(result) ==
    IF result.err = NoError THEN result
    ELSE [err |-> [type |-> "GeometryParseError", message |-> result.err],
          geometry |-> NoGeometry]

parse_geometry_file(file) ==
    IF ~file.exists
    THEN [err |-> [type |-> "FileNotFoundError"], geometry |-> NoGeometry]
    ELSE wrap_error(parse_geometry_stream(file.lines, file.path))

\* DetectorGeometry(detector_name, panels, comments): the dataclass
\* constructor, which runs __post_init__ on the new object
construct_DetectorGeometry(name, panels, comments) ==
    IF DetectorGeometry_post_init([panels |-> panels]) # ""
    THEN [err |-> [type |-> "ValueError"], geometry |-> NoGeometry]
    ELSE [err |-> NoError, geometry |-> DetectorGeometry(name, panels, comments)]


\* panel_size_um = 352 * 100
panel_size_um == 352 * 100

\* DetectorGeometry.get_coordinate_bounds: ((xmin, xmax), (ymin, ymax)),
\* the panel positions widened by one panel size on every side
get_coordinate_bounds(geometry) ==
    IF DOMAIN geometry.panels = {} THEN <<<<0, 0>>, <<0, 0>>>>
    ELSE <<<<SetMin({geometry.panels[k].position_um[1] : k \in DOMAIN geometry.panels})
                - panel_size_um,
             SetMax({geometry.panels[k].position_um[1] : k \in DOMAIN geometry.panels})
                + panel_size_um>>,
           <<SetMin({geometry.panels[k].position_um[2] : k \in DOMAIN geometry.panels})
                - panel_size_um,
             SetMax({geometry.panels[k].position_um[2] : k \in DOMAIN geometry.panels})
                + panel_size_um>>>>

ExpectedPanels == 16     \* validate_geometry: 16 panels, ids range(16)
RangeLow == 50000        \* validate_geometry: 50-200mm seems reasonable
RangeHigh == 200000

\* an entry of the list validate_geometry returns
Issue(kind, ids) == [kind |-> kind, ids |-> ids]

RECURSIVE shape_issues(_, _)
\* the loop over geometry.panels.items(), for the panels with key in ids;
\* the dictionary is walked by ascending key
shape_issues(panels, ids) ==
    IF ids = {} THEN <<>>
    ELSE (IF panels[SetMin(ids)].shape # EPIX10KA2M_PANEL_SHAPE
          THEN <<Issue("wrong_shape", {SetMin(ids)})>> ELSE <<>>)
         \o shape_issues(panels, ids \ {SetMin(ids)})

\* an x or y range outside the window adds an issue
range_issue(kind, bound) ==
    IF bound[2] - bound[1] < RangeLow \/ bound[2] - bound[1] > RangeHigh
    THEN <<Issue(kind, {})>> ELSE <<>>

\* a validation that does not look at the panel shapes
validate_geometry_NoShapes(geometry) ==
    (IF Cardinality(DOMAIN geometry.panels) # ExpectedPanels
     THEN <<Issue("panel_count", {})>> ELSE <<>>)
    \o (IF (0..(ExpectedPanels - 1)) \ DOMAIN geometry.panels # {}
        THEN <<Issue("missing_ids", (0..(ExpectedPanels - 1)) \ DOMAIN geometry.panels)>>
        ELSE <<>>)
    \o (IF DOMAIN geometry.panels \ (0..(ExpectedPanels - 1)) # {}
        THEN <<Issue("extra_ids", DOMAIN geometry.panels \ (0..(ExpectedPanels - 1)))>>
        ELSE <<>>)
    \o range_issue("x_range", get_coordinate_bounds(geometry)[1])
    \o range_issue("y_range", get_coordinate_bounds(geometry)[2])

\* validate_geometry: the list of issues, in the order of the checks
validate_geometry(geometry) ==
    (IF Cardinality(DOMAIN geometry.panels) # ExpectedPanels
     THEN <<Issue("panel_count", {})>> ELSE <<>>)
    \o (IF (0..(ExpectedPanels - 1)) \ DOMAIN geometry.panels # {}
        THEN <<Issue("missing_ids", (0..(ExpectedPanels - 1)) \ DOMAIN geometry.panels)>>
        ELSE <<>>)
    \o (IF DOMAIN geometry.panels \ (0..(ExpectedPanels - 1)) # {}
        THEN <<Issue("extra_ids", DOMAIN geometry.panels \ (0..(ExpectedPanels - 1)))>>
        ELSE <<>>)
    \o shape_issues(geometry.panels, DOMAIN geometry.panels)
    \o range_issue("x_range", get_coordinate_bounds(geometry)[1])
    \o range_issue("y_range", get_coordinate_bounds(geometry)[2])

\* "CAMERA 0 <name> <idx> x0 y0 z0 rot_z rot_y rot_x tilt_z tilt_y tilt_x"
DataFields(name, idx, nums) ==
    <<StrTok("CAMERA"), IntTok(0), StrTok(name), idx>> \o nums
DataLine(fields) == [kind |-> "data", fields |-> fields]

\* nine numeric fields that differ from line to line
Numbers(b) ==
    <<DecTok(b), IntTok(b + 1), DecTok(b + 2), IntTok(90), DecTok(0), IntTok(0),
      DecTok(b + 3), IntTok(0 - b), DecTok(1)>>

LineSamples ==
    {[kind |-> "blank", fields |-> <<>>],
     [kind |-> "comment", fields |-> <<>>, form |-> "keyed", key |-> "DETECTOR",
      value |-> "epix10ka2m"],
     [kind |-> "comment", fields |-> <<>>, form |-> "plain", key |-> "",
      value |-> "panels"],
     [kind |-> "HDR", fields |-> <<StrTok("HDR"), StrTok("PARENT"), StrTok("IND")>>],
     DataLine(DataFields("EPIX10KA:V1", IntTok(0), Numbers(10))),
     DataLine(DataFields("EPIX10KA:V1", IntTok(0), Numbers(20))),
     DataLine(DataFields("EPIX10KA:V1", IntTok(1), Numbers(30))),
     DataLine(DataFields("EPIX10KA:V1", IntTok(2), Numbers(40))),
     DataLine(DataFields("EPIX10KA:V1", IntTok(16), Numbers(50))),
     DataLine(DataFields("QUAD:V1", IntTok(0), Numbers(60))),
     \* 12 fields, 14 fields, a float field and an int field that do not parse
     DataLine(SubSeq(DataFields("EPIX10KA:V1", IntTok(1), Numbers(70)), 1, 12)),
     DataLine(DataFields("EPIX10KA:V1", IntTok(1), Numbers(80)) \o <<IntTok(7)>>),
     DataLine(DataFields("EPIX10KA:V1", IntTok(1),
                         [Numbers(90) EXCEPT ![2] = StrTok("abc")])),
     DataLine(DataFields("EPIX10KA:V1", DecTok(1), Numbers(95)))}

RECURSIVE LineSeqs(_)
\* the sequences of n sample lines
LineSeqs(n) ==
    IF n = 0 THEN {<<>>}
    ELSE {Append(ls, l) : ls \in LineSeqs(n - 1), l \in LineSamples}

\* The dictionaries handed to the constructor directly.  Their keys are any
\* integers; every value is a PanelGeometry, whose own panel_id is within
\* 0..15 by its constructor and need not be its key.
KeySets ==
    (SUBSET ((0 - 1)..MaxKey))
        \cup {0..(ExpectedPanels - 1), 0..ExpectedPanels, 1..ExpectedPanels,
              0..(ExpectedPanels - 2)}
\* where the panel of the largest key lies (all others at the origin)
FarPositions == {<<0, 0, 0>>, <<100000, 0, 0>>, <<150000, 0, 0>>, <<0, 150000, 0>>}
\* which panels do not have the Epix10ka2M shape
WrongShapes == {"none", "last", "all"}

PanelDict(keys, far, wrong) ==
    [k \in keys |->
        PanelGeometry(IF k \in 0..MaxPanelId THEN k ELSE 0,
                      IF wrong = "all" \/ (wrong = "last" /\ k = SetMax(keys))
                      THEN <<2, 2>> ELSE EPIX10KA2M_PANEL_SHAPE,
                      EPIX10KA2M_PIXEL_SIZE_UM, EPIX10KA2M_WIDE_PIXEL_SIZE_UM,
                      IF k = SetMax(keys) THEN far ELSE <<0, 0, 0>>,
                      <<0, 0, 0>>, <<0, 0, 0>>)]

GeoInit ==
    /\ \/ /\ g_op = "parse"
          /\ g_panels = <<>>
          /\ \/ g_file = [exists |-> FALSE, path |-> "geometry-def-epix10ka2m.data",
                          lines |-> <<>>]
             \/ \E n \in 0..MaxLines : \E ls \in LineSeqs(n) :
                   g_file = [exists |-> TRUE, path |-> "geometry-def-epix10ka2m.data",
                             lines |-> ls]
       \/ /\ g_op = "construct"
          /\ g_file = <<>>
          /\ \E keys \in KeySets : \E far \in FarPositions : \E wrong \in WrongShapes :
                g_panels = PanelDict(keys, far, wrong)
    /\ g_result = <<>>
    /\ g_issues = <<>>
    /\ g_pc = "new"
    /\ GOthersIdle

ParseFile ==
    /\ g_pc = "new"
    /\ g_op = "parse"
    /\ g_result' = parse_geometry_file(g_file)
    /\ g_pc' = "done"
    /\ UNCHANGED <<g_file, g_op, g_panels, g_issues, g_others>>

\* DetectorGeometry(detector_name=..., panels=..., comments={})
Construct ==
    /\ g_pc = "new"
    /\ g_op = "construct"
    /\ g_result' = construct_DetectorGeometry("epix10ka2m", g_panels, <<>>)
    /\ g_pc' = "done"
    /\ UNCHANGED <<g_file, g_op, g_panels, g_issues, g_others>>

\* validate_geometry(geometry) on the geometry that was returned
Validate ==
    /\ g_pc = "done"
    /\ g_result.err = NoError
    /\ g_issues' = validate_geometry(g_result.geometry)
    /\ g_pc' = "validated"
    /\ UNCHANGED <<g_file, g_op, g_panels, g_result, g_others>>

GeoNext == ParseFile \/ Construct \/ Validate

SpecGeo == GeoInit /\ [][GeoNext]_vars

\* the data lines of the file (by 1-based line number), and those among them
\* whose object name is the panel type
DataLineNumbers ==
    {k \in 1..Len(g_file.lines) : g_file.lines[k].kind = "data"}
PanelLineNumbers ==
    {k \in DataLineNumbers :
        /\ Len(g_file.lines[k].fields) >= 3
        /\ g_file.lines[k].fields[3] = StrTok("EPIX10KA:V1")}
FieldOf(k, i) == g_file.lines[k].fields[i]

Parsed == g_pc = "done" /\ g_op = "parse" /\ g_result.err = NoError

(* C19: parsing yields exactly one panel per data line whose object name is
   the panel type, keyed by that line's object index, with position
   (x0, y0, z0), rotation (rot_z, rot_y, rot_x) and tilt (tilt_z, tilt_y,
   tilt_x) equal to the numbers on that line; lines with another object name
   produce no panel; a 2-line file of panel lines with indices 0 and 1
   yields exactly 2 panels. *)
C19_OnePanelPerPanelLine ==
    /\ Parsed =>
          /\ Cardinality(DOMAIN g_result.geometry.panels)
                = Cardinality(PanelLineNumbers)
          /\ \A k \in PanelLineNumbers :
                /\ FieldOf(k, 4).val \in DOMAIN g_result.geometry.panels
                /\ LET panel == g_result.geometry.panels[FieldOf(k, 4).val]
                   IN  /\ panel.panel_id = FieldOf(k, 4).val
                       /\ panel.position_um =
                             <<FieldOf(k, 5).val, FieldOf(k, 6).val, FieldOf(k, 7).val>>
                       /\ panel.rotation_deg =
                             <<FieldOf(k, 8).val, FieldOf(k, 9).val, FieldOf(k, 10).val>>
                       /\ panel.tilt_deg =
                             <<FieldOf(k, 11).val, FieldOf(k, 12).val, FieldOf(k, 13).val>>
    /\ ( /\ g_pc = "done" /\ g_op = "parse" /\ g_file.exists /\ Len(g_file.lines) = 2
         /\ PanelLineNumbers = {1, 2}
         /\ \A k \in {1, 2} : Len(g_file.lines[k].fields) = NumLineFields
         /\ {FieldOf(1, 4), FieldOf(2, 4)} = {IntTok(0), IntTok(1)} )
       => (Parsed /\ DOMAIN g_result.geometry.panels = {0, 1})

Returned == g_pc \in {"done", "validated"} /\ g_result.err = NoError
PanelIds == DOMAIN g_result.geometry.panels
\* a set of ids that is not empty and has no gap: every id is at least 0 and
\* below the number of ids
Dense(ids) == ids # {} /\ \A k \in ids : k >= 0 /\ k < Cardinality(ids)

(* C21: every DetectorGeometry that the constructor accepts or the parser
   returns has at least one panel and panel ids (the keys of its panels)
   that are exactly 0..N-1 for N its number of panels; the constructor
   rejects every other set of ids, and then there is no geometry. *)
C21_GeometryIdsAreDense ==
    /\ Returned => Dense(PanelIds)
    /\ (g_pc \in {"done", "validated"} /\ g_op = "construct") =>
          /\ g_result.err = NoError <=> Dense(DOMAIN g_panels)
          /\ g_result.err # NoError =>
                /\ g_result.err.type = "ValueError"
                /\ g_result.geometry = NoGeometry
          /\ g_result.err = NoError => g_result.geometry.panels = g_panels

\* the constructor accepted a dictionary of three panels
C21_Witness ==
    /\ g_pc = "done" /\ g_op = "construct" /\ g_result.err = NoError
    /\ PanelIds = {0, 1, 2}

\* the data line does not have exactly 13 fields, or one of its integer or
\* float fields does not parse
Malformed(k) ==
    \/ Len(g_file.lines[k].fields) # NumLineFields
    \/ \E i \in {2, 4} : FieldOf(k, i).lex # "int"
    \/ \E i \in 5..13 : FieldOf(k, i).lex \notin {"int", "dec"}

FirstMalformed ==
    CHOOSE k \in DataLineNumbers :
        /\ Malformed(k)
        /\ \A j \in DataLineNumbers : Malformed(j) => k <= j

(* C20: parse_geometry_file fails with GeometryParseError, carrying the
   1-based line number and the content of the offending line, whenever a
   data line does not have exactly 13 whitespace-separated fields or has an
   integer or float field that does not parse; no geometry is returned. *)
C20_MalformedLineRaises ==
    ( /\ g_pc = "done" /\ g_op = "parse" /\ g_file.exists
      /\ \E k \in DataLineNumbers : Malformed(k) )
    => /\ g_result.err.type = "GeometryParseError"
       /\ g_result.err.message.type = "GeometryParseError"
       /\ g_result.err.message.line_num = FirstMalformed
       /\ g_result.err.message.line = g_file.lines[FirstMalformed]
       /\ g_result.geometry = NoGeometry

\* the file exists and every data line has 13 fields that parse
WellFormedLines ==
    /\ g_op = "parse" /\ g_file.exists
    /\ \A k \in DataLineNumbers : ~Malformed(k)
\* the object indices of the panel lines
FileIds == {FieldOf(k, 4).val : k \in PanelLineNumbers}

\* the extent of the panel positions along axis i, widened by a panel size
\* (352 pixels of 100 um) on both sides
BoxRange(i) ==
    LET at == {g_result.geometry.panels[k].position_um[i] : k \in PanelIds}
    IN  (CHOOSE hi \in at : \A v \in at : v <= hi)
          - (CHOOSE lo \in at : \A v \in at : v >= lo) + 2 * 35200
\* none of the sanity checks is violated by the geometry returned
NoCheckViolated ==
    /\ Cardinality(PanelIds) = 16
    /\ \A k \in PanelIds : k >= 0 /\ k <= 15
    /\ \A k \in PanelIds : g_result.geometry.panels[k].shape = <<352, 384>>
    /\ \A i \in {1, 2} : BoxRange(i) >= 50000 /\ BoxRange(i) <= 200000
\* validate_geometry returned: an empty list exactly when no check is violated
ValidateReportsChecks ==
    g_pc = "validated" =>
        /\ g_issues \in Seq({g_issues[k] : k \in DOMAIN g_issues})
        /\ g_issues = <<>> <=> NoCheckViolated

(* C22 as stated: the sanity checks (panel count, ids 0..N-1, shapes,
   bounding box) are never fatal to parsing: every file whose data lines are
   well formed is parsed into a geometry, whichever check it violates, and
   validate_geometry on a geometry returns an empty list exactly when no
   check is violated. *)
C22_Original_ChecksNeverFatal ==
    /\ (g_pc \in {"done", "validated"} /\ WellFormedLines) => g_result.err = NoError
    /\ ValidateReportsChecks

(* C22, amended: a file of well-formed lines whose panel ids are 0..M-1 for
   some M >= 1 is parsed into a geometry with those ids, whichever of the
   sanity checks it violates (M other than 16, bounding box outside the
   window); a file with no panel line or with ids that are not 0..M-1 is
   refused with GeometryParseError; validate_geometry on any geometry
   returns a list, which is empty exactly when no check is violated. *)
C22_ChecksNotFatalForDenseIds ==
    /\ (g_pc \in {"done", "validated"} /\ WellFormedLines) =>
          /\ Dense(FileIds) =>
                g_result.err = NoError /\ PanelIds = FileIds
          /\ ~Dense(FileIds) =>
                /\ g_result.err.type = "GeometryParseError"
                /\ g_result.err.message.type = "ValueError"
                /\ g_result.geometry = NoGeometry
    /\ ValidateReportsChecks

\* a file of two panels (not the 16 expected) was parsed, and validation
\* returned issues
C22_Witness ==
    /\ g_pc = "validated" /\ g_op = "parse"
    /\ PanelIds = {0, 1}
    /\ g_issues # <<>>

(***************************************************************************)
(* The frame shape checks of the assembly functions (epix_utils.py).  An   *)
(* array is kept as its shape and the name of what its buffer holds; the   *)
(* coordinates handed to img_from_pixel_arrays are kept as the panels      *)
(* present, the shape of each panel's arrays and the dimensions of the     *)
(* image their bin indices span.                                           *)
(***************************************************************************)
ndarray(shape, buffer) == [shape |-> shape, buffer |-> buffer]
NoArray == ndarray(<<>>, "none")

RECURSIVE size(_)
\* ndarray.size: the product of the shape
size(shape) == IF shape = <<>> THEN 1 ELSE Head(shape) * size(Tail(shape))

\* _assemble_quad_image: two rows of two panels, 20 pixels between them
assemble_quad_image(quad_frames, include_gaps) ==
    IF quad_frames.shape # <<4, 352, 384>>
    THEN [err |-> "ValueError", image |-> NoArray]
    ELSE IF include_gaps
    THEN [err |-> "", image |-> ndarray(<<352 + 20 + 352, 384 + 20 + 384>>, "assembled")]
    ELSE [err |-> "", image |-> ndarray(<<352 + 352, 384 + 384>>, "assembled")]

\* _assemble_full_detector_image: four quads side by side, 50 pixels between
assemble_full_detector_image(frames, include_gaps) ==
    IF frames.shape # <<16, 352, 384>>
    THEN [err |-> "ValueError", image |-> NoArray]
    ELSE IF assemble_quad_image(ndarray(<<4, 352, 384>>, frames.buffer), include_gaps).err # ""
    THEN [err |-> "ValueError", image |-> NoArray]
    ELSE IF include_gaps
    THEN [err |-> "",
          image |-> ndarray(
              <<assemble_quad_image(ndarray(<<4, 352, 384>>, frames.buffer),
                                    include_gaps).image.shape[1],
                4 * assemble_quad_image(ndarray(<<4, 352, 384>>, frames.buffer),
                                        include_gaps).image.shape[2] + 3 * 50>>,
              "assembled")]
    ELSE [err |-> "",
          image |-> ndarray(
              <<assemble_quad_image(ndarray(<<4, 352, 384>>, frames.buffer),
                                    include_gaps).image.shape[1],
                4 * assemble_quad_image(ndarray(<<4, 352, 384>>, frames.buffer),
                                        include_gaps).image.shape[2]>>,
              "assembled")]

\* assemble_epix10ka2m_image: a two-dimensional array of 352 * 384 elements
\* is returned as frames.reshape(352, 384)
assemble_epix10ka2m_image(frames, include_gaps) ==
    IF Len(frames.shape) = 2 /\ size(frames.shape) = 352 * 384
    THEN [err |-> "", image |-> ndarray(<<352, 384>>, frames.buffer)]
    ELSE IF Len(frames.shape) = 3 /\ frames.shape[1] = 4
    THEN assemble_quad_image(frames, include_gaps)
    ELSE IF Len(frames.shape) = 3 /\ frames.shape[1] = 16
    THEN assemble_full_detector_image(frames, include_gaps)
    ELSE [err |-> "ValueError", image |-> NoArray]

\* frames[panel_id]: IndexError beyond the first axis; otherwise the number
\* of elements of panel_data.flatten()
panel_data(frames, panel_id) ==
    IF frames.shape = <<>> \/ panel_id >= frames.shape[1]
    THEN [err |-> "IndexError", len |-> 0]
    ELSE [err |-> "", len |-> size(Tail(frames.shape))]

RECURSIVE collect_lengths(_, _, _, _, _)
\* the loop of img_from_pixel_arrays from panel_id on: the lengths of
\* np.concatenate(all_x) and np.concatenate(all_data), x_len and data_len
\* being those of the panels before panel_id
collect_lengths(coords, frames, panel_id, x_len, data_len) ==
    IF panel_id >= NumPanelSlots
    THEN [err |-> "", x_len |-> x_len, data_len |-> data_len]
    ELSE IF panel_id \notin coords.present
    THEN collect_lengths(coords, frames, panel_id + 1, x_len, data_len)
    ELSE IF panel_data(frames, panel_id).err # ""
    THEN [err |-> panel_data(frames, panel_id).err, x_len |-> 0, data_len |-> 0]
    ELSE collect_lengths(coords, frames, panel_id + 1,
                         x_len + size(coords.shape),
                         data_len + panel_data(frames, panel_id).len)

\* image[row_indices, col_indices] = data_all: the values are broadcast to
\* the index arrays, which a single value and an equal number of values can be
setitem(index_len, value_len) ==
    IF value_len = index_len \/ value_len = 1 THEN "" ELSE "ValueError"

\* img_from_pixel_arrays when frames need not match the coordinates
img_from_pixel_arrays_of_shapes(coords, frames) ==
    IF collect_lengths(coords, frames, 0, 0, 0).err # ""
    THEN [err |-> collect_lengths(coords, frames, 0, 0, 0).err, image |-> NoArray]
    ELSE IF coords.present = {}
    THEN [err |-> "", image |-> ndarray(<<1, 1>>, "zeros")]
    ELSE IF setitem(collect_lengths(coords, frames, 0, 0, 0).x_len,
                    collect_lengths(coords, frames, 0, 0, 0).data_len) # ""
    THEN [err |-> "ValueError", image |-> NoArray]
    ELSE [err |-> "", image |-> ndarray(coords.dims, "assembled")]

\* assemble_epix10ka2m_psana_compatible with geometry=None
assemble_epix10ka2m_psana_compatible(frames, geometry_loads, coords) ==
    IF frames.shape # <<16, 352, 384>>
    THEN [err |-> "ValueError", image |-> NoArray]
    ELSE IF ~geometry_loads
    THEN [err |-> "ValueError", image |-> NoArray]
    ELSE img_from_pixel_arrays_of_shapes(coords, frames)

FrameShapes ==
    {<<>>, <<135168>>,
     <<352, 384>>, <<384, 352>>, <<176, 768>>, <<352, 383>>,
     <<1, 352, 384>>, <<1, 384, 352>>, <<1, 1, 1>>,
     <<4, 352, 384>>, <<4, 384, 352>>, <<4, 352, 383>>,
     <<16, 352, 384>>, <<16, 384, 352>>, <<16, 352, 383>>, <<16, 1, 1>>,
     <<15, 352, 384>>, <<17, 352, 384>>, <<16, 352, 384, 1>>}
\* the coordinates of no panel, of panel 0 and of all 16 panels
CoordinateSamples ==
    {[present |-> {}, shape |-> EPIX10KA2M_PANEL_SHAPE, dims |-> <<1, 1>>],
     [present |-> {0}, shape |-> EPIX10KA2M_PANEL_SHAPE, dims |-> <<353, 388>>],
     [present |-> 0..15, shape |-> EPIX10KA2M_PANEL_SHAPE, dims |-> <<1691, 1691>>]}
NoCoordinates == [present |-> {}, shape |-> <<>>, dims |-> <<>>]

Call(fn, include_gaps, geometry_loads, coords) ==
    [fn |-> fn, include_gaps |-> include_gaps, geometry_loads |-> geometry_loads,
     coords |-> coords]

ShapeInit ==
    /\ \E sh \in FrameShapes : s_frames = ndarray(sh, "raw")
    /\ \/ \E gaps \in BOOLEAN :
             s_call = Call("assemble_epix10ka2m_image", gaps, FALSE, NoCoordinates)
       \/ \E loads \in BOOLEAN :
             s_call = Call("assemble_epix10ka2m_psana_compatible", FALSE, loads,
                           CHOOSE c \in CoordinateSamples : c.present = 0..15)
       \/ \E c \in CoordinateSamples :
             s_call = Call("img_from_pixel_arrays", FALSE, FALSE, c)
    /\ s_result = <<>>
    /\ s_pc = "new"
    /\ SOthersIdle

AssembleSimple ==
    /\ s_pc = "new"
    /\ s_call.fn = "assemble_epix10ka2m_image"
    /\ s_result' = assemble_epix10ka2m_image(s_frames, s_call.include_gaps)
    /\ s_pc' = "done"
    /\ UNCHANGED <<s_frames, s_call, s_others>>

AssemblePsana ==
    /\ s_pc = "new"
    /\ s_call.fn = "assemble_epix10ka2m_psana_compatible"
    /\ s_result' = assemble_epix10ka2m_psana_compatible(
                       s_frames, s_call.geometry_loads, s_call.coords)
    /\ s_pc' = "done"
    /\ UNCHANGED <<s_frames, s_call, s_others>>

AssembleFromPixelArrays ==
    /\ s_pc = "new"
    /\ s_call.fn = "img_from_pixel_arrays"
    /\ s_result' = img_from_pixel_arrays_of_shapes(s_call.coords, s_frames)
    /\ s_pc' = "done"
    /\ UNCHANGED <<s_frames, s_call, s_others>>

ShapeNext == AssembleSimple \/ AssemblePsana \/ AssembleFromPixelArrays

SpecShape == ShapeInit /\ [][ShapeNext]_vars

\* the shape of one panel of the frames handed over: the whole shape of a
\* two-dimensional array, the shape without its first axis otherwise
PanelShapeOf(frames) ==
    IF Len(frames.shape) = 2 THEN frames.shape
    ELSE IF Len(frames.shape) >= 1 THEN Tail(frames.shape)
    ELSE <<>>
\* the call used the frames: every call but img_from_pixel_arrays with the
\* coordinates of no panel
UsesFrames == s_call.fn = "img_from_pixel_arrays" => s_call.coords.present # {}

(* C23: whenever the panel array handed to an assembly function does not
   have the expected panel shape (352, 384), the call ends with an error:
   no image is returned from data of another shape. *)
C23_ShapeMismatchIsReported ==
    (s_pc = "done" /\ UsesFrames /\ PanelShapeOf(s_frames) # <<352, 384>>)
        => s_result.err # ""

(***************************************************************************)
(* The Epix10ka2M panel: shape (352, 384), pitch 100 um, wide pitch 250 um. *)
(***************************************************************************)
RealPanel ==
    /\ p_panel.shape = <<352, 384>>
    /\ p_panel.pixel_size_um = 100
    /\ p_panel.wide_pixel_size_um = 250

\* the values lie within a span of at least lo and at most hi: two of them
\* enclose all others and are that far apart
SpanWithin(values, lo, hi) ==
    \E top \in values :
        /\ \A v \in values : v <= top
        /\ \E bottom \in values :
              /\ \A v \in values : bottom <= v
              /\ top - bottom >= lo
              /\ top - bottom <= hi

(* C25: for a panel of shape (352, 384) with pitch 100 um and wide pitch
   250 um the generated local coordinates span (max - min) between 30 mm
   and 50 mm on each axis, and validate_panel_coordinates reports no range
   issue for them. *)
C25_RealPanelSpansWithinWindow ==
    (p_pc \in {"done", "validated"} /\ RealPanel) =>
        /\ p_result.err = ""
        /\ \E xs \in {array_values(p_result.x_coords)} : SpanWithin(xs, 30000, 50000)
        /\ \E ys \in {array_values(p_result.y_coords)} : SpanWithin(ys, 30000, 50000)
        /\ p_pc = "validated" =>
              \A k \in DOMAIN p_issues : p_issues[k] \notin {"x_range", "y_range"}

\* the panel was generated and validated: 38.6 mm along x, 35.4 mm along y
C25_Witness ==
    /\ p_pc = "validated" /\ RealPanel
    /\ p_issues = <<>>
    /\ p_result.x_coords[1][384] - p_result.x_coords[1][1] = 38600
    /\ p_result.y_coords[1][1] - p_result.y_coords[352][1] = 35400
====
